---- MODULE Spec2Model ----
(***************************************************************************)
(* A model of the retrieval core of the chatbot: the language utilities    *)
(* (src/src/utils/languageUtils.js), the relevance scorer and retriever    *)
(* and the document chunk store (src/src/services/ragService.js).          *)
(*                                                                         *)
(* Text is a sequence of UTF-16 code units (all of them in the basic       *)
(* plane here), so that case folding, the whitespace class, the diacritic  *)
(* class and the Arabic ranges are the ranges the source writes.           *)
(* Scores are counted in halves (score * 2): every term of the score is a  *)
(* multiple of 0.5, so the count is exact.                                 *)
(***************************************************************************)
EXTENDS Integers, Sequences, FiniteSets, TLC

VARIABLES
  query,        \* the text handed to the function under check
  phase,        \* position of the pure-function specifications
  normOnce,     \* normalizeText(query)
  normTwice,    \* normalizeText(normalizeText(query))
  keywords,     \* extractKeywords(query)
  topK,         \* the topK argument of a search: <<>> (none) or <<k>>
  documents,    \* RAGSystem.documents
  searchOut,    \* what searchRelevantContext(query, topK) did
  promptInfo,   \* buildContextPrompt(query, searchOut.results)
  isInitialized,\* RAGSystem.isInitialized
  stats,        \* RAGSystem.stats
  dir,          \* the data directory: whether it is there, and its files
  calls,        \* the calls of initialize, searchRelevantContext and refresh
  request,      \* the chat request in progress, from req.body to the HTTP response
  nodeEnv,      \* process.env.NODE_ENV
  now,          \* Date.now(), in milliseconds
  requests,     \* the Map of the rate limiter: client -> times of admitted requests
  lastPost,     \* the last POST to a chat route: its route and what became of it
  health        \* the last answer of GET /api/health

textVars   == <<normOnce, normTwice, keywords>>
searchVars == <<topK, searchOut, promptInfo>>
storeVars  == <<documents, isInitialized, stats>>
chatVars   == <<request, nodeEnv>>
rateVars   == <<now, requests, lastPost>>
httpVars   == <<chatVars, rateVars, health>>
vars == <<query, phase, textVars, searchVars, storeVars, dir, calls, httpVars>>

(***************************************************************************)
(* Bounds of the model.                                                    *)
(***************************************************************************)
MaxTextLen == 4
MaxQueryLen == 3
MaxFiles == 3
MaxTopK == 2
NumCalls == 2
MaxQuietRequests == 1
MaxHealthChecks == 1

\* Op(value), with the value computed once however often Op uses it.
With(value, Op(_)) == CHOOSE r \in {Op(v) : v \in {value}} : TRUE

(***************************************************************************)
(* Character classes.                                                      *)
(***************************************************************************)
\* JavaScript's WhiteSpace and LineTerminator: what trim() strips and \s matches.
IsWhitespace(c) ==
  \/ c \in {9, 10, 11, 12, 13, 32, 160, 5760, 8232, 8233, 8239, 8287, 12288, 65279}
  \/ (8192 <= c /\ c <= 8202)

\* /[\u064B-\u0652\u0670\u0640]/ : the Arabic diacritics and the tatweel.
IsDiacritic(c) == (1611 <= c /\ c <= 1618) \/ c = 1648 \/ c = 1600

\* arabicRegex: /[\u0600-\u06FF\u0750-\u077F\u08A0-\u08FF\uFB50-\uFDFF\uFE70-\uFEFF]/
IsArabicChar(c) ==
  \/ (1536 <= c /\ c <= 1791)
  \/ (1872 <= c /\ c <= 1919)
  \/ (2208 <= c /\ c <= 2303)
  \/ (64336 <= c /\ c <= 65023)
  \/ (65136 <= c /\ c <= 65279)

\* String.prototype.toLowerCase on one code unit (the Latin letters; Arabic has no case).
ToLowerChar(c) == IF 65 <= c /\ c <= 90 THEN c + 32 ELSE c

toLowerCase(text) == [i \in 1..Len(text) |-> ToLowerChar(text[i])]

\* String.prototype.trim
trim(text) ==
  LET keep == {i \in 1..Len(text) : ~IsWhitespace(text[i])}
  IN  IF keep = {} THEN <<>>
      ELSE LET first == CHOOSE i \in keep : \A j \in keep : i <= j
               last  == CHOOSE i \in keep : \A j \in keep : j <= i
           IN  SubSeq(text, first, last)

\* .replace(/[\u064B-\u0652\u0670\u0640]/g, '')
StripDiacritics(text) == SelectSeq(text, LAMBDA c : ~IsDiacritic(c))

\* .replace(/\s+/g, ' ') : every maximal run of whitespace becomes one space.
RECURSIVE CollapseFrom(_, _)
CollapseFrom(text, i) ==
  IF i > Len(text) THEN <<>>
  ELSE IF IsWhitespace(text[i])
       THEN IF i > 1 /\ IsWhitespace(text[i - 1])
            THEN CollapseFrom(text, i + 1)
            ELSE <<32>> \o CollapseFrom(text, i + 1)
       ELSE <<text[i]>> \o CollapseFrom(text, i + 1)

CollapseWhitespace(text) == CollapseFrom(text, 1)

\* The order of the source: lower-case, trim, strip diacritics, collapse whitespace.
normalizeText(text) ==
  IF text = <<>> THEN <<>>
  ELSE CollapseWhitespace(StripDiacritics(trim(toLowerCase(text))))

\* String.prototype.split(/\s+/): the pieces between maximal whitespace runs; a
\* leading or trailing run leaves an empty piece, and "" splits into [""].
RECURSIVE SplitFrom(_, _, _, _)
SplitFrom(text, i, cur, acc) ==
  IF i > Len(text) THEN Append(acc, cur)
  ELSE IF IsWhitespace(text[i])
       THEN IF i < Len(text) /\ IsWhitespace(text[i + 1])
            THEN SplitFrom(text, i + 1, cur, acc)
            ELSE SplitFrom(text, i + 1, <<>>, Append(acc, cur))
       ELSE SplitFrom(text, i + 1, Append(cur, text[i]), acc)

SplitWhitespace(text) == SplitFrom(text, 1, <<>>, <<>>)

isArabic(text) == \E i \in 1..Len(text) : IsArabicChar(text[i])

\* "ar" and "en" as the two language codes.
detectLanguage(text) == IF isArabic(text) THEN "ar" ELSE "en"

(***************************************************************************)
(* The Arabic -> English keyword table of the constructor.                 *)
(***************************************************************************)
arabicKeywordMappings ==
  \* line 169: U+0623 U+0633 U+0639 U+0627 U+0631 -> price, pricing, cost, fee, rates
     (<<1571, 1587, 1593, 1575, 1585>> :> <<<<112, 114, 105, 99, 101>>, <<112, 114, 105, 99, 105, 110, 103>>, <<99, 111, 115, 116>>, <<102, 101, 101>>, <<114, 97, 116, 101, 115>>>>)
  \* line 170: U+062A U+0643 U+0644 U+0641 U+0629 -> cost, price, expense, fee
  @@ (<<1578, 1603, 1604, 1601, 1577>> :> <<<<99, 111, 115, 116>>, <<112, 114, 105, 99, 101>>, <<101, 120, 112, 101, 110, 115, 101>>, <<102, 101, 101>>>>)
  \* line 171: U+0633 U+0639 U+0631 -> price, cost, pricing
  @@ (<<1587, 1593, 1585>> :> <<<<112, 114, 105, 99, 101>>, <<99, 111, 115, 116>>, <<112, 114, 105, 99, 105, 110, 103>>>>)
  \* line 172: U+0631 U+0633 U+0648 U+0645 -> fees, charges, cost, price
  @@ (<<1585, 1587, 1608, 1605>> :> <<<<102, 101, 101, 115>>, <<99, 104, 97, 114, 103, 101, 115>>, <<99, 111, 115, 116>>, <<112, 114, 105, 99, 101>>>>)
  \* line 173: U+0645 U+062C U+0627 U+0646 U+064A -> free, complimentary, no-cost
  @@ (<<1605, 1580, 1575, 1606, 1610>> :> <<<<102, 114, 101, 101>>, <<99, 111, 109, 112, 108, 105, 109, 101, 110, 116, 97, 114, 121>>, <<110, 111, 45, 99, 111, 115, 116>>>>)
  \* line 174: U+062F U+0648 U+0631 U+0627 U+062A -> course, courses, training, bootcamp, program
  @@ (<<1583, 1608, 1585, 1575, 1578>> :> <<<<99, 111, 117, 114, 115, 101>>, <<99, 111, 117, 114, 115, 101, 115>>, <<116, 114, 97, 105, 110, 105, 110, 103>>, <<98, 111, 111, 116, 99, 97, 109, 112>>, <<112, 114, 111, 103, 114, 97, 109>>>>)
  \* line 175: U+062F U+0648 U+0631 U+0629 -> course, training, program
  @@ (<<1583, 1608, 1585, 1577>> :> <<<<99, 111, 117, 114, 115, 101>>, <<116, 114, 97, 105, 110, 105, 110, 103>>, <<112, 114, 111, 103, 114, 97, 109>>>>)
  \* line 176: U+0643 U+0648 U+0631 U+0633 U+0627 U+062A -> course, courses, training, bootcamp
  @@ (<<1603, 1608, 1585, 1587, 1575, 1578>> :> <<<<99, 111, 117, 114, 115, 101>>, <<99, 111, 117, 114, 115, 101, 115>>, <<116, 114, 97, 105, 110, 105, 110, 103>>, <<98, 111, 111, 116, 99, 97, 109, 112>>>>)
  \* line 177: U+0643 U+0648 U+0631 U+0633 -> course, training
  @@ (<<1603, 1608, 1585, 1587>> :> <<<<99, 111, 117, 114, 115, 101>>, <<116, 114, 97, 105, 110, 105, 110, 103>>>>)
  \* line 178: U+062A U+062F U+0631 U+064A U+0628 -> training, course, courses, bootcamp, workshop
  @@ (<<1578, 1583, 1585, 1610, 1576>> :> <<<<116, 114, 97, 105, 110, 105, 110, 103>>, <<99, 111, 117, 114, 115, 101>>, <<99, 111, 117, 114, 115, 101, 115>>, <<98, 111, 111, 116, 99, 97, 109, 112>>, <<119, 111, 114, 107, 115, 104, 111, 112>>>>)
  \* line 179: U+0628 U+0631 U+0627 U+0645 U+062C -> program, programs, courses, training
  @@ (<<1576, 1585, 1575, 1605, 1580>> :> <<<<112, 114, 111, 103, 114, 97, 109>>, <<112, 114, 111, 103, 114, 97, 109, 115>>, <<99, 111, 117, 114, 115, 101, 115>>, <<116, 114, 97, 105, 110, 105, 110, 103>>>>)
  \* line 180: U+0628 U+0631 U+0646 U+0627 U+0645 U+062C -> program, course, training
  @@ (<<1576, 1585, 1606, 1575, 1605, 1580>> :> <<<<112, 114, 111, 103, 114, 97, 109>>, <<99, 111, 117, 114, 115, 101>>, <<116, 114, 97, 105, 110, 105, 110, 103>>>>)
  \* line 181: U+0634 U+0647 U+0627 U+062F U+0629 -> certificate, certification, diploma
  @@ (<<1588, 1607, 1575, 1583, 1577>> :> <<<<99, 101, 114, 116, 105, 102, 105, 99, 97, 116, 101>>, <<99, 101, 114, 116, 105, 102, 105, 99, 97, 116, 105, 111, 110>>, <<100, 105, 112, 108, 111, 109, 97>>>>)
  \* line 182: U+062E U+062F U+0645 U+0627 U+062A -> service, services, consulting, support
  @@ (<<1582, 1583, 1605, 1575, 1578>> :> <<<<115, 101, 114, 118, 105, 99, 101>>, <<115, 101, 114, 118, 105, 99, 101, 115>>, <<99, 111, 110, 115, 117, 108, 116, 105, 110, 103>>, <<115, 117, 112, 112, 111, 114, 116>>>>)
  \* line 183: U+062E U+062F U+0645 U+0629 -> service, consulting
  @@ (<<1582, 1583, 1605, 1577>> :> <<<<115, 101, 114, 118, 105, 99, 101>>, <<99, 111, 110, 115, 117, 108, 116, 105, 110, 103>>>>)
  \* line 184: U+0645 U+0646 U+062A U+062C U+0627 U+062A -> product, products, software, solution
  @@ (<<1605, 1606, 1578, 1580, 1575, 1578>> :> <<<<112, 114, 111, 100, 117, 99, 116>>, <<112, 114, 111, 100, 117, 99, 116, 115>>, <<115, 111, 102, 116, 119, 97, 114, 101>>, <<115, 111, 108, 117, 116, 105, 111, 110>>>>)
  \* line 185: U+0645 U+0646 U+062A U+062C -> product, software
  @@ (<<1605, 1606, 1578, 1580>> :> <<<<112, 114, 111, 100, 117, 99, 116>>, <<115, 111, 102, 116, 119, 97, 114, 101>>>>)
  \* line 186: U+062D U+0644 U+0648 U+0644 -> solution, solutions, services
  @@ (<<1581, 1604, 1608, 1604>> :> <<<<115, 111, 108, 117, 116, 105, 111, 110>>, <<115, 111, 108, 117, 116, 105, 111, 110, 115>>, <<115, 101, 114, 118, 105, 99, 101, 115>>>>)
  \* line 187: U+062D U+0644 -> solution, service
  @@ (<<1581, 1604>> :> <<<<115, 111, 108, 117, 116, 105, 111, 110>>, <<115, 101, 114, 118, 105, 99, 101>>>>)
  \* line 188: U+0627 U+0633 U+062A U+0634 U+0627 U+0631 U+0627 U+062A -> consulting, consultation, advisory
  @@ (<<1575, 1587, 1578, 1588, 1575, 1585, 1575, 1578>> :> <<<<99, 111, 110, 115, 117, 108, 116, 105, 110, 103>>, <<99, 111, 110, 115, 117, 108, 116, 97, 116, 105, 111, 110>>, <<97, 100, 118, 105, 115, 111, 114, 121>>>>)
  \* line 189: U+0627 U+0633 U+062A U+0634 U+0627 U+0631 U+0629 -> consulting, consultation
  @@ (<<1575, 1587, 1578, 1588, 1575, 1585, 1577>> :> <<<<99, 111, 110, 115, 117, 108, 116, 105, 110, 103>>, <<99, 111, 110, 115, 117, 108, 116, 97, 116, 105, 111, 110>>>>)
  \* line 190: U+0627 U+062A U+0635 U+0627 U+0644 -> contact, contacts, phone, call
  @@ (<<1575, 1578, 1589, 1575, 1604>> :> <<<<99, 111, 110, 116, 97, 99, 116>>, <<99, 111, 110, 116, 97, 99, 116, 115>>, <<112, 104, 111, 110, 101>>, <<99, 97, 108, 108>>>>)
  \* line 191: U+062A U+0648 U+0627 U+0635 U+0644 -> contact, communication, reach
  @@ (<<1578, 1608, 1575, 1589, 1604>> :> <<<<99, 111, 110, 116, 97, 99, 116>>, <<99, 111, 109, 109, 117, 110, 105, 99, 97, 116, 105, 111, 110>>, <<114, 101, 97, 99, 104>>>>)
  \* line 192: U+0647 U+0627 U+062A U+0641 -> phone, telephone, number
  @@ (<<1607, 1575, 1578, 1601>> :> <<<<112, 104, 111, 110, 101>>, <<116, 101, 108, 101, 112, 104, 111, 110, 101>>, <<110, 117, 109, 98, 101, 114>>>>)
  \* line 193: U+062A U+0644 U+064A U+0641 U+0648 U+0646 -> phone, telephone
  @@ (<<1578, 1604, 1610, 1601, 1608, 1606>> :> <<<<112, 104, 111, 110, 101>>, <<116, 101, 108, 101, 112, 104, 111, 110, 101>>>>)
  \* line 194: U+0631 U+0642 U+0645 -> number, phone
  @@ (<<1585, 1602, 1605>> :> <<<<110, 117, 109, 98, 101, 114>>, <<112, 104, 111, 110, 101>>>>)
  \* line 195: U+0625 U+064A U+0645 U+064A U+0644 -> email, mail, contact
  @@ (<<1573, 1610, 1605, 1610, 1604>> :> <<<<101, 109, 97, 105, 108>>, <<109, 97, 105, 108>>, <<99, 111, 110, 116, 97, 99, 116>>>>)
  \* line 196: U+0628 U+0631 U+064A U+062F -> email, mail
  @@ (<<1576, 1585, 1610, 1583>> :> <<<<101, 109, 97, 105, 108>>, <<109, 97, 105, 108>>>>)
  \* line 197: U+0639 U+0646 U+0648 U+0627 U+0646 -> address, location, office
  @@ (<<1593, 1606, 1608, 1575, 1606>> :> <<<<97, 100, 100, 114, 101, 115, 115>>, <<108, 111, 99, 97, 116, 105, 111, 110>>, <<111, 102, 102, 105, 99, 101>>>>)
  \* line 198: U+0645 U+0648 U+0642 U+0639 -> location, address, site, office
  @@ (<<1605, 1608, 1602, 1593>> :> <<<<108, 111, 99, 97, 116, 105, 111, 110>>, <<97, 100, 100, 114, 101, 115, 115>>, <<115, 105, 116, 101>>, <<111, 102, 102, 105, 99, 101>>>>)
  \* line 199: U+0645 U+0643 U+0627 U+0646 -> location, place, address
  @@ (<<1605, 1603, 1575, 1606>> :> <<<<108, 111, 99, 97, 116, 105, 111, 110>>, <<112, 108, 97, 99, 101>>, <<97, 100, 100, 114, 101, 115, 115>>>>)
  \* line 200: U+0633 U+064A U+0627 U+0633 U+0627 U+062A -> policy, policies, terms, conditions
  @@ (<<1587, 1610, 1575, 1587, 1575, 1578>> :> <<<<112, 111, 108, 105, 99, 121>>, <<112, 111, 108, 105, 99, 105, 101, 115>>, <<116, 101, 114, 109, 115>>, <<99, 111, 110, 100, 105, 116, 105, 111, 110, 115>>>>)
  \* line 201: U+0633 U+064A U+0627 U+0633 U+0629 -> policy, terms
  @@ (<<1587, 1610, 1575, 1587, 1577>> :> <<<<112, 111, 108, 105, 99, 121>>, <<116, 101, 114, 109, 115>>>>)
  \* line 202: U+0642 U+0648 U+0627 U+0646 U+064A U+0646 -> rules, policies, regulations, terms
  @@ (<<1602, 1608, 1575, 1606, 1610, 1606>> :> <<<<114, 117, 108, 101, 115>>, <<112, 111, 108, 105, 99, 105, 101, 115>>, <<114, 101, 103, 117, 108, 97, 116, 105, 111, 110, 115>>, <<116, 101, 114, 109, 115>>>>)
  \* line 203: U+0642 U+0627 U+0646 U+0648 U+0646 -> rule, policy, regulation
  @@ (<<1602, 1575, 1606, 1608, 1606>> :> <<<<114, 117, 108, 101>>, <<112, 111, 108, 105, 99, 121>>, <<114, 101, 103, 117, 108, 97, 116, 105, 111, 110>>>>)
  \* line 204: U+0634 U+0631 U+0648 U+0637 -> terms, conditions, requirements
  @@ (<<1588, 1585, 1608, 1591>> :> <<<<116, 101, 114, 109, 115>>, <<99, 111, 110, 100, 105, 116, 105, 111, 110, 115>>, <<114, 101, 113, 117, 105, 114, 101, 109, 101, 110, 116, 115>>>>)
  \* line 205: U+0634 U+0631 U+0637 -> term, condition
  @@ (<<1588, 1585, 1591>> :> <<<<116, 101, 114, 109>>, <<99, 111, 110, 100, 105, 116, 105, 111, 110>>>>)
  \* line 206: U+0623 U+0633 U+0626 U+0644 U+0629 -> faq, faqs, question, questions, ask
  @@ (<<1571, 1587, 1574, 1604, 1577>> :> <<<<102, 97, 113>>, <<102, 97, 113, 115>>, <<113, 117, 101, 115, 116, 105, 111, 110>>, <<113, 117, 101, 115, 116, 105, 111, 110, 115>>, <<97, 115, 107>>>>)
  \* line 207: U+0627 U+0633 U+062A U+0641 U+0633 U+0627 U+0631 -> inquiry, question, ask, faq
  @@ (<<1575, 1587, 1578, 1601, 1587, 1575, 1585>> :> <<<<105, 110, 113, 117, 105, 114, 121>>, <<113, 117, 101, 115, 116, 105, 111, 110>>, <<97, 115, 107>>, <<102, 97, 113>>>>)
  \* line 208: U+0627 U+0633 U+062A U+0641 U+0633 U+0627 U+0631 U+0627 U+062A -> inquiries, questions, faqs
  @@ (<<1575, 1587, 1578, 1601, 1587, 1575, 1585, 1575, 1578>> :> <<<<105, 110, 113, 117, 105, 114, 105, 101, 115>>, <<113, 117, 101, 115, 116, 105, 111, 110, 115>>, <<102, 97, 113, 115>>>>)
  \* line 209: U+0633 U+0624 U+0627 U+0644 -> question, ask, inquiry
  @@ (<<1587, 1572, 1575, 1604>> :> <<<<113, 117, 101, 115, 116, 105, 111, 110>>, <<97, 115, 107>>, <<105, 110, 113, 117, 105, 114, 121>>>>)
  \* line 210: U+0634 U+0631 U+0643 U+0629 -> company, overview, about, organization
  @@ (<<1588, 1585, 1603, 1577>> :> <<<<99, 111, 109, 112, 97, 110, 121>>, <<111, 118, 101, 114, 118, 105, 101, 119>>, <<97, 98, 111, 117, 116>>, <<111, 114, 103, 97, 110, 105, 122, 97, 116, 105, 111, 110>>>>)
  \* line 211: U+0645 U+0624 U+0633 U+0633 U+0629 -> company, organization, institution
  @@ (<<1605, 1572, 1587, 1587, 1577>> :> <<<<99, 111, 109, 112, 97, 110, 121>>, <<111, 114, 103, 97, 110, 105, 122, 97, 116, 105, 111, 110>>, <<105, 110, 115, 116, 105, 116, 117, 116, 105, 111, 110>>>>)
  \* line 212: U+0641 U+0631 U+064A U+0642 -> team, employees, staff, personnel
  @@ (<<1601, 1585, 1610, 1602>> :> <<<<116, 101, 97, 109>>, <<101, 109, 112, 108, 111, 121, 101, 101, 115>>, <<115, 116, 97, 102, 102>>, <<112, 101, 114, 115, 111, 110, 110, 101, 108>>>>)
  \* line 213: U+0645 U+0648 U+0638 U+0641 U+064A U+0646 -> employees, staff, team, workers
  @@ (<<1605, 1608, 1592, 1601, 1610, 1606>> :> <<<<101, 109, 112, 108, 111, 121, 101, 101, 115>>, <<115, 116, 97, 102, 102>>, <<116, 101, 97, 109>>, <<119, 111, 114, 107, 101, 114, 115>>>>)
  \* line 214: U+0645 U+0648 U+0638 U+0641 -> employee, staff
  @@ (<<1605, 1608, 1592, 1601>> :> <<<<101, 109, 112, 108, 111, 121, 101, 101>>, <<115, 116, 97, 102, 102>>>>)
  \* line 215: U+0648 U+0642 U+062A -> time, duration, schedule
  @@ (<<1608, 1602, 1578>> :> <<<<116, 105, 109, 101>>, <<100, 117, 114, 97, 116, 105, 111, 110>>, <<115, 99, 104, 101, 100, 117, 108, 101>>>>)
  \* line 216: U+0645 U+062F U+0629 -> duration, time, period
  @@ (<<1605, 1583, 1577>> :> <<<<100, 117, 114, 97, 116, 105, 111, 110>>, <<116, 105, 109, 101>>, <<112, 101, 114, 105, 111, 100>>>>)
  \* line 217: U+062C U+062F U+0648 U+0644 -> schedule, timetable, calendar
  @@ (<<1580, 1583, 1608, 1604>> :> <<<<115, 99, 104, 101, 100, 117, 108, 101>>, <<116, 105, 109, 101, 116, 97, 98, 108, 101>>, <<99, 97, 108, 101, 110, 100, 97, 114>>>>)
  \* line 218: U+0645 U+0648 U+0639 U+062F -> appointment, schedule, time
  @@ (<<1605, 1608, 1593, 1583>> :> <<<<97, 112, 112, 111, 105, 110, 116, 109, 101, 110, 116>>, <<115, 99, 104, 101, 100, 117, 108, 101>>, <<116, 105, 109, 101>>>>)
  \* line 219: U+0645 U+0639 U+0644 U+0648 U+0645 U+0627 U+062A -> information, details, data
  @@ (<<1605, 1593, 1604, 1608, 1605, 1575, 1578>> :> <<<<105, 110, 102, 111, 114, 109, 97, 116, 105, 111, 110>>, <<100, 101, 116, 97, 105, 108, 115>>, <<100, 97, 116, 97>>>>)
  \* line 220: U+062A U+0641 U+0627 U+0635 U+064A U+0644 -> details, information, specifics
  @@ (<<1578, 1601, 1575, 1589, 1610, 1604>> :> <<<<100, 101, 116, 97, 105, 108, 115>>, <<105, 110, 102, 111, 114, 109, 97, 116, 105, 111, 110>>, <<115, 112, 101, 99, 105, 102, 105, 99, 115>>>>)
  \* line 221: U+0643 U+064A U+0641 -> how, method, way
  @@ (<<1603, 1610, 1601>> :> <<<<104, 111, 119>>, <<109, 101, 116, 104, 111, 100>>, <<119, 97, 121>>>>)
  \* line 222: U+0627 U+0632 U+0627 U+064A -> how, method, way
  @@ (<<1575, 1586, 1575, 1610>> :> <<<<104, 111, 119>>, <<109, 101, 116, 104, 111, 100>>, <<119, 97, 121>>>>)
  \* line 223: U+0625 U+0632 U+0627 U+064A -> how, method, way
  @@ (<<1573, 1586, 1575, 1610>> :> <<<<104, 111, 119>>, <<109, 101, 116, 104, 111, 100>>, <<119, 97, 121>>>>)
  \* line 224: U+0645 U+0627 U+0630 U+0627 -> what, which
  @@ (<<1605, 1575, 1584, 1575>> :> <<<<119, 104, 97, 116>>, <<119, 104, 105, 99, 104>>>>)
  \* line 225: U+0627 U+064A U+0647 -> what, which
  @@ (<<1575, 1610, 1607>> :> <<<<119, 104, 97, 116>>, <<119, 104, 105, 99, 104>>>>)
  \* line 226: U+0625 U+064A U+0647 -> what, which
  @@ (<<1573, 1610, 1607>> :> <<<<119, 104, 97, 116>>, <<119, 104, 105, 99, 104>>>>)
  \* line 227: U+0645 U+062A U+0649 -> when, time, schedule
  @@ (<<1605, 1578, 1609>> :> <<<<119, 104, 101, 110>>, <<116, 105, 109, 101>>, <<115, 99, 104, 101, 100, 117, 108, 101>>>>)
  \* line 228: U+0627 U+0645 U+062A U+0649 -> when, time
  @@ (<<1575, 1605, 1578, 1609>> :> <<<<119, 104, 101, 110>>, <<116, 105, 109, 101>>>>)
  \* line 229: U+0625 U+0645 U+062A U+0649 -> when, time
  @@ (<<1573, 1605, 1578, 1609>> :> <<<<119, 104, 101, 110>>, <<116, 105, 109, 101>>>>)
  \* line 230: U+0623 U+064A U+0646 -> where, location, place
  @@ (<<1571, 1610, 1606>> :> <<<<119, 104, 101, 114, 101>>, <<108, 111, 99, 97, 116, 105, 111, 110>>, <<112, 108, 97, 99, 101>>>>)
  \* line 231: U+0641 U+064A U+0646 -> where, location
  @@ (<<1601, 1610, 1606>> :> <<<<119, 104, 101, 114, 101>>, <<108, 111, 99, 97, 116, 105, 111, 110>>>>)
  \* line 232: U+0639 U+0627 U+064A U+0632 -> want, need, looking
  @@ (<<1593, 1575, 1610, 1586>> :> <<<<119, 97, 110, 116>>, <<110, 101, 101, 100>>, <<108, 111, 111, 107, 105, 110, 103>>>>)
  \* line 233: U+0639 U+0627 U+0648 U+0632 -> want, need, looking
  @@ (<<1593, 1575, 1608, 1586>> :> <<<<119, 97, 110, 116>>, <<110, 101, 101, 100>>, <<108, 111, 111, 107, 105, 110, 103>>>>)
  \* line 234: U+0645 U+062D U+062A U+0627 U+062C -> need, want, require
  @@ (<<1605, 1581, 1578, 1575, 1580>> :> <<<<110, 101, 101, 100>>, <<119, 97, 110, 116>>, <<114, 101, 113, 117, 105, 114, 101>>>>)
  \* line 235: U+0645 U+0645 U+0643 U+0646 -> can, possible, may
  @@ (<<1605, 1605, 1603, 1606>> :> <<<<99, 97, 110>>, <<112, 111, 115, 115, 105, 98, 108, 101>>, <<109, 97, 121>>>>)
  \* line 236: U+0627 U+0632 U+064A U+0643 -> how are you, greeting, hello
  @@ (<<1575, 1586, 1610, 1603>> :> <<<<104, 111, 119, 32, 97, 114, 101, 32, 121, 111, 117>>, <<103, 114, 101, 101, 116, 105, 110, 103>>, <<104, 101, 108, 108, 111>>>>)
  \* line 237: U+0625 U+0632 U+064A U+0643 -> how are you, greeting, hello
  @@ (<<1573, 1586, 1610, 1603>> :> <<<<104, 111, 119, 32, 97, 114, 101, 32, 121, 111, 117>>, <<103, 114, 101, 101, 116, 105, 110, 103>>, <<104, 101, 108, 108, 111>>>>)

\* The lower-case names every object literal inherits from Object.prototype: the
\* lookup arabicKeywordMappings[word] finds a value that is no array for them.
InheritedKeys ==
  { <<99, 111, 110, 115, 116, 114, 117, 99, 116, 111, 114>>,   \* constructor
    <<95, 95, 112, 114, 111, 116, 111, 95, 95>> }              \* __proto__

RECURSIVE AddAllUnique(_, _)
AddAllUnique(acc, items) ==
  IF items = <<>> THEN acc
  ELSE LET x == Head(items)
       IN  AddAllUnique(IF \E i \in 1..Len(acc) : acc[i] = x THEN acc ELSE Append(acc, x),
                        Tail(items))

RECURSIVE ExpandFrom(_, _, _)
ExpandFrom(words, i, acc) ==
  IF i > Len(words) THEN acc
  ELSE ExpandFrom(words, i + 1,
         IF words[i] \in DOMAIN arabicKeywordMappings
         THEN AddAllUnique(acc, arabicKeywordMappings[words[i]])
         ELSE acc)

\* new Set(words), then the equivalents of every word that is a key, in insertion order.
expandArabicKeywords(words) == ExpandFrom(words, 1, AddAllUnique(<<>>, words))

\* englishEquivalents.forEach is not a function: the expansion throws a TypeError.
expandArabicKeywordsThrows(words) ==
  \E i \in 1..Len(words) : words[i] \in InheritedKeys

KeywordWords(text) ==
  SelectSeq(SplitWhitespace(normalizeText(text)), LAMBDA w : Len(w) > 1)

extractKeywords(text) ==
  LET Keywords(words) == [ original |-> words,
                           expanded |-> expandArabicKeywords(words),
                           language |-> detectLanguage(text) ]
  IN  With(KeywordWords(text), Keywords)

SeqToSet(s) == {s[i] : i \in 1..Len(s)}

(***************************************************************************)
(* Configuration (config.rag), with no environment override.               *)
(***************************************************************************)
\* topK: parseInt(process.env.RAG_TOP_K) || 5
ConfigTopK == 5
\* minScore: parseFloat(process.env.RAG_MIN_SCORE) || 0.5, in halves
MinScoreHalves == 1

(***************************************************************************)
(* new RegExp(`\\b${word}\\b`, 'gi') and String.prototype.match.           *)
(* The keyword is spliced into the pattern unescaped.  Of the syntax       *)
(* characters of a pattern, the texts of this model hold the "?" only:     *)
(* after a character it makes the character optional (greedy), "??" makes  *)
(* it optional and lazy, and a "?" with nothing to repeat (first in the    *)
(* keyword, right after \b, or third in a row) is a SyntaxError.           *)
(***************************************************************************)
\* \w : [A-Za-z0-9_]
IsWordChar(c) ==
  \/ (48 <= c /\ c <= 57)
  \/ (65 <= c /\ c <= 90)
  \/ c = 95
  \/ (97 <= c /\ c <= 122)

\* \b holds at position j, between text[j-1] and text[j]
AtWordBoundary(text, j) ==
  LET before == j > 1 /\ IsWordChar(text[j - 1])
      after  == j <= Len(text) /\ IsWordChar(text[j])
  IN  before # after

RegExpThrows(word) ==
  /\ word # <<>>
  /\ \/ word[1] = 63
     \/ \E i \in 1..(Len(word) - 2) : word[i] = 63 /\ word[i + 1] = 63 /\ word[i + 2] = 63

RECURSIVE ParseFrom(_, _)
ParseFrom(word, i) ==
  IF i > Len(word) THEN <<>>
  ELSE LET q1 == i + 1 <= Len(word) /\ word[i + 1] = 63
           q2 == q1 /\ i + 2 <= Len(word) /\ word[i + 2] = 63
       IN  IF q2 THEN <<[ch |-> word[i], mode |-> "lazy"]>> \o ParseFrom(word, i + 3)
           ELSE IF q1 THEN <<[ch |-> word[i], mode |-> "opt"]>> \o ParseFrom(word, i + 2)
           ELSE <<[ch |-> word[i], mode |-> "one"]>> \o ParseFrom(word, i + 1)

\* The end (the index after the last character matched) of the match of
\* atoms[k..] followed by \b at text position j that backtracking finds first;
\* 0 when there is none.  The 'i' flag compares case-folded characters.
RECURSIVE MatchEnd(_, _, _, _)
MatchEnd(atoms, k, text, j) ==
  IF k > Len(atoms) THEN (IF AtWordBoundary(text, j) THEN j ELSE 0)
  ELSE LET a    == atoms[k]
           hit  == j <= Len(text) /\ ToLowerChar(text[j]) = ToLowerChar(a.ch)
           take == IF hit THEN MatchEnd(atoms, k + 1, text, j + 1) ELSE 0
           skip == MatchEnd(atoms, k + 1, text, j)
       IN  CASE a.mode = "one"  -> take
             [] a.mode = "opt"  -> IF take # 0 THEN take ELSE skip
             [] a.mode = "lazy" -> IF skip # 0 THEN skip ELSE take

\* The 'g' flag: matches are taken left to right, each search starting where the
\* last match ended (one further after an empty match).
\* ends[p] is the end of the match that starts at p, 0 when none starts there.
RECURSIVE CountFrom(_, _)
CountFrom(ends, i) ==
  LET starts == {p \in i..Len(ends) : ends[p] # 0}
  IN  IF starts = {} THEN 0
      ELSE LET p == CHOOSE s \in starts : \A t \in starts : s <= t
           IN  1 + CountFrom(ends, IF ends[p] = p THEN p + 1 ELSE ends[p])

\* (normalizedContent.match(regex) || []).length
CountMatches(word, text) ==
  LET Ends(atoms) == [p \in 1..(Len(text) + 1) |->
                        IF AtWordBoundary(text, p) THEN MatchEnd(atoms, 1, text, p) ELSE 0]
      Count(ends) == CountFrom(ends, 1)
  IN  With(With(ParseFrom(word, 1), Ends), Count)

\* String.prototype.includes
Includes(text, sub) ==
  \E i \in 0..(Len(text) - Len(sub)) : SubSeq(text, i + 1, i + Len(sub)) = sub

RECURSIVE SumSeq(_)
SumSeq(s) == IF s = <<>> THEN 0 ELSE Head(s) + SumSeq(Tail(s))

(***************************************************************************)
(* Documents.                                                              *)
(***************************************************************************)
DotTxt == <<46, 116, 120, 116>>   \* .txt

\* file.endsWith('.txt')
EndsWithTxt(filename) ==
  Len(filename) >= 4 /\ SubSeq(filename, Len(filename) - 3, Len(filename)) = DotTxt

\* filename.replace('.txt', ''): the first occurrence is removed
FileType(filename) ==
  LET hits == {i \in 1..(Len(filename) - 3) : SubSeq(filename, i, i + 3) = DotTxt}
  IN  IF hits = {} THEN filename
      ELSE LET i == CHOOSE h \in hits : \A g \in hits : h <= g
           IN  SubSeq(filename, 1, i - 1) \o SubSeq(filename, i + 4, Len(filename))

\* The object processFile pushes for chunk number i (from 0) of a file.
MakeDocument(filename, i, chunk) ==
  [ pageContent |-> chunk,
    metadata |-> [ source    |-> filename,
                   chunk     |-> i,
                   type      |-> FileType(filename),
                   wordCount |-> Len(SplitWhitespace(chunk)),
                   language  |-> detectLanguage(chunk) ] ]

\* The loop of processFile over the pieces the splitter returned: each is
\* trimmed, and an empty one is skipped (its number is skipped with it).
RECURSIVE ChunkDocumentsFrom(_, _, _)
ChunkDocumentsFrom(filename, chunks, i) ==
  IF i > Len(chunks) THEN <<>>
  ELSE (IF Len(trim(chunks[i])) > 0
        THEN <<MakeDocument(filename, i - 1, trim(chunks[i]))>>
        ELSE <<>>)
       \o ChunkDocumentsFrom(filename, chunks, i + 1)

ChunkDocuments(filename, chunks) == ChunkDocumentsFrom(filename, chunks, 1)

(***************************************************************************)
(* The relevance score, in halves.                                         *)
(***************************************************************************)
typeKeywords ==
     (<<99, 111, 117, 114, 115, 101, 115>> :>                      \* courses
        { <<99, 111, 117, 114, 115, 101>>,                         \* course
          <<116, 114, 97, 105, 110, 105, 110, 103>>,               \* training
          <<1583, 1608, 1585, 1575, 1578>>,
          <<1578, 1583, 1585, 1610, 1576>> })
  @@ (<<112, 114, 105, 99, 105, 110, 103>> :>                      \* pricing
        { <<112, 114, 105, 99, 101>>, <<99, 111, 115, 116>>,       \* price, cost
          <<1571, 1587, 1593, 1575, 1585>>,
          <<1578, 1603, 1604, 1601, 1577>> })
  @@ (<<115, 101, 114, 118, 105, 99, 101, 115>> :>                 \* services
        { <<115, 101, 114, 118, 105, 99, 101>>,                    \* service
          <<1582, 1583, 1605, 1575, 1578>>,
          <<99, 111, 110, 115, 117, 108, 116, 105, 110, 103>> })   \* consulting
  @@ (<<99, 111, 110, 116, 97, 99, 116>> :>                        \* contact
        { <<99, 111, 110, 116, 97, 99, 116>>, <<112, 104, 111, 110, 101>>,
          <<1575, 1578, 1589, 1575, 1604>>, <<1607, 1575, 1578, 1601>> })
  @@ (<<112, 111, 108, 105, 99, 105, 101, 115>> :>                 \* policies
        { <<112, 111, 108, 105, 99, 121>>, <<116, 101, 114, 109, 115>>,
          <<1587, 1610, 1575, 1587, 1575, 1578>> })
  @@ (<<102, 97, 113, 115>> :>                                     \* faqs
        { <<113, 117, 101, 115, 116, 105, 111, 110>>, <<102, 97, 113>>,
          <<1571, 1587, 1574, 1604, 1577>> })

\* 3 (6 halves) when some expanded keyword is listed for the type of the document
getTypeRelevance(docType, kw) ==
  LET relevantTypes == IF docType \in DOMAIN typeKeywords THEN typeKeywords[docType] ELSE {}
  IN  IF \E i \in 1..Len(kw.expanded) : toLowerCase(kw.expanded[i]) \in relevantTypes
      THEN 6 ELSE 0

\* The tokens of the lower-cased query longer than 2 characters
QueryWords(queryLower) == SelectSeq(SplitWhitespace(queryLower), LAMBDA w : Len(w) > 2)

ScoreOfContent(normalizedContent, queryLower, queryWords, doc, kw, originalQuery) ==
    SumSeq([i \in 1..Len(kw.expanded) |->
              4 * CountMatches(kw.expanded[i], normalizedContent)])
  + (IF Includes(normalizedContent, queryLower) THEN 20 ELSE 0)
  + SumSeq([i \in 1..Len(queryWords) |->
              IF Includes(normalizedContent, queryWords[i]) THEN 2 ELSE 0])
  + (IF doc.metadata.language = detectLanguage(originalQuery) THEN 1 ELSE 0)
  + getTypeRelevance(doc.metadata.type, kw)

calculateRelevanceScore(doc, kw, originalQuery) ==
  LET Score(t) == ScoreOfContent(t[1], t[2], t[3], doc, kw, originalQuery)
  IN  With(<< normalizeText(toLowerCase(doc.pageContent)),
              toLowerCase(originalQuery),
              QueryWords(toLowerCase(originalQuery)) >>, Score)

\* The scoring of one document throws when the pattern of a keyword is invalid.
ScoringThrows(kw) == \E i \in 1..Len(kw.expanded) : RegExpThrows(kw.expanded[i])

(***************************************************************************)
(* searchRelevantContext, from its try block on (the store is loaded), and *)
(* buildContextPrompt.  topK is <<>> when the caller passes none (null)    *)
(* and <<k>> when it passes k.                                             *)
(***************************************************************************)
Min(a, b) == IF a <= b THEN a ELSE b

\* topK || config.rag.topK : null and 0 are both falsy
ActualTopK(k) == IF k = <<>> \/ k[1] = 0 THEN ConfigTopK ELSE k[1]

\* One step of the stable sort by (a, b) => b.score - a.score: x goes behind
\* every element that does not score less.
RECURSIVE InsertByScore(_, _, _)
InsertByScore(sorted, x, scores) ==
  IF sorted = <<>> THEN <<x>>
  ELSE IF scores[Head(sorted)] >= scores[x]
       THEN <<Head(sorted)>> \o InsertByScore(Tail(sorted), x, scores)
       ELSE <<x>> \o sorted

RECURSIVE SortFrom(_, _, _, _)
SortFrom(idx, i, acc, scores) ==
  IF i > Len(idx) THEN acc
  ELSE SortFrom(idx, i + 1, InsertByScore(acc, idx[i], scores), scores)

\* .sort((a, b) => b.score - a.score) on the document numbers idx
SortByScoreDesc(idx, scores) == SortFrom(idx, 1, <<>>, scores)

\* .filter(doc => doc.score > config.rag.minScore) on the document numbers
FilterByMinScore(scores) ==
  SelectSeq([i \in 1..Len(scores) |-> i], LAMBDA i : scores[i] > MinScoreHalves)

\* .slice(0, actualTopK)
SliceTopK(sorted, k) == SubSeq(sorted, 1, Min(ActualTopK(k), Len(sorted)))

\* The numbers (positions in this.documents) of the documents returned, in order.
RankedDocuments(scores, k) ==
  LET Sorted(passing) == SortByScoreDesc(passing, scores)
      Sliced(sorted)  == SliceTopK(sorted, k)
  IN  With(With(FilterByMinScore(scores), Sorted), Sliced)

SearchFailed == [status |-> "RAGError", scored |-> <<>>, ranked |-> <<>>, results |-> <<>>]

\* status "RAGError": the catch block threw new RAGError('Context search failed: ...')
SearchResults(docs, scores, ranked) ==
  [ status  |-> "ok",
    scored  |-> scores,
    ranked  |-> ranked,
    results |-> [n \in 1..Len(ranked) |->
                  [ content  |-> docs[ranked[n]].pageContent,
                    source   |-> docs[ranked[n]].metadata.source,
                    type     |-> docs[ranked[n]].metadata.type,
                    score    |-> scores[ranked[n]],
                    language |-> docs[ranked[n]].metadata.language ]] ]

\* A catch block that logs the failure and returns [] instead of throwing.
searchSwallowsError(docs, q, k) ==
  LET Ranked(scores) ==
        LET Returned(ranked) == SearchResults(docs, scores, ranked)
        IN  With(RankedDocuments(scores, k), Returned)
      Swallowed == [SearchFailed EXCEPT !.status = "ok"]
      Scored(kw) ==
        IF docs # <<>> /\ ScoringThrows(kw) THEN Swallowed
        ELSE With([i \in 1..Len(docs) |-> calculateRelevanceScore(docs[i], kw, q)], Ranked)
  IN  IF expandArabicKeywordsThrows(KeywordWords(q)) THEN Swallowed
      ELSE With(extractKeywords(q), Scored)

searchRelevantContext(docs, q, k) ==
  LET Ranked(scores) ==
        LET Returned(ranked) == SearchResults(docs, scores, ranked)
        IN  With(RankedDocuments(scores, k), Returned)
      Scored(kw) ==
        IF docs # <<>> /\ ScoringThrows(kw) THEN SearchFailed
        ELSE With([i \in 1..Len(docs) |-> calculateRelevanceScore(docs[i], kw, q)], Ranked)
  IN  IF expandArabicKeywordsThrows(KeywordWords(q)) THEN SearchFailed
      ELSE With(extractKeywords(q), Scored)

\* A prompt is the sequence of the parts of its template literal: the fixed
\* texts of the template (named by id), and the values interpolated into it.
Part(kind, id, n, text) == [kind |-> kind, id |-> id, n |-> n, text |-> text]

FixedText(id) == Part("text", id, 0, <<>>)

\* ${config.company.name}
CompanyName == Part("companyName", "config.company.name", 0, <<>>)

\* The text getEgyptianToneInstructions returns
getEgyptianToneInstructions == <<Part("egyptianTone", "ar.tone", 0, <<>>)>>

\* `[Document ${index + 1} - ${chunk.source}]\n${chunk.content}`
DocumentBlock(chunk, n) ==
  << Part("label", "Document", n, chunk.source),
     Part("content", "chunk.content", n, chunk.content) >>

\* .map(...).join('\n\n---\n\n')
RECURSIVE JoinDocuments(_, _)
JoinDocuments(relevantChunks, n) ==
  IF n > Len(relevantChunks) THEN <<>>
  ELSE (IF n > 1 THEN <<Part("separator", "---", 0, <<>>)>> ELSE <<>>)
         \o DocumentBlock(relevantChunks[n], n)
         \o JoinDocuments(relevantChunks, n + 1)

ContextText(relevantChunks) == JoinDocuments(relevantChunks, 1)

\* A no-context prompt that leaves the tone instructions out.
getNoContextPromptWithoutTone(isAr) ==
  IF isAr
  THEN <<FixedText("noContext.ar.assistant"), CompanyName,
         FixedText("noContext.ar.answer"), FixedText("noContext.ar.apologize")>>
  ELSE <<FixedText("noContext.en.assistant"), CompanyName,
         FixedText("noContext.en.answer")>>

getNoContextPrompt(isAr) ==
  IF isAr
  THEN <<FixedText("noContext.ar.assistant"), CompanyName,
         FixedText("noContext.ar.answer")>>
         \o getEgyptianToneInstructions
         \o <<FixedText("noContext.ar.apologize")>>
  ELSE <<FixedText("noContext.en.assistant"), CompanyName,
         FixedText("noContext.en.answer")>>

getContextualPrompt(contextText, isAr) ==
  IF isAr
  THEN <<FixedText("context.ar.assistant"), CompanyName,
         FixedText("context.ar.useInformation")>>
         \o contextText
         \o <<FixedText("context.ar.instructions")>>
         \o getEgyptianToneInstructions
         \o <<FixedText("context.ar.closing")>>
  ELSE <<FixedText("context.en.assistant"), CompanyName,
         FixedText("context.en.useInformation")>>
         \o contextText
         \o <<FixedText("context.en.instructions")>>

\* contextText is a parameter the template does not use
buildUserPrompt(q, contextText, isAr) ==
  IF isAr
  THEN <<FixedText("user.ar.basedOn"), Part("query", "query", 0, q),
         FixedText("user.ar.pleaseAnswer")>>
  ELSE <<FixedText("user.en.basedOn"), Part("query", "query", 0, q),
         FixedText("user.en.pleaseAnswer")>>

\* A list of sources that keeps every repetition.
SourcesOfWithRepeats(relevantChunks) ==
  [n \in 1..Len(relevantChunks) |-> relevantChunks[n].source]

\* [...new Set(relevantChunks.map(chunk => chunk.source))]
SourcesOf(relevantChunks) ==
  AddAllUnique(<<>>, [n \in 1..Len(relevantChunks) |-> relevantChunks[n].source])

\* A bundle built as if there were chunks, whatever the list.
buildContextPromptAlwaysContext(q, relevantChunks) ==
  LET language == detectLanguage(q)
      isAr     == language = "ar"
  IN  [ systemPrompt |-> getContextualPrompt(ContextText(relevantChunks), isAr),
        userPrompt   |-> buildUserPrompt(q, ContextText(relevantChunks), isAr),
        hasContext   |-> TRUE,
        sources      |-> SourcesOf(relevantChunks),
        language     |-> language,
        chunkCount   |-> Len(relevantChunks) ]

\* The prompt bundle; the branch without chunks returns neither sources nor
\* chunkCount.
buildContextPrompt(q, relevantChunks) ==
  LET language == detectLanguage(q)
      isAr     == language = "ar"
  IN  IF Len(relevantChunks) = 0
      THEN [ systemPrompt |-> getNoContextPrompt(isAr),
             userPrompt   |-> <<Part("query", "query", 0, q)>>,
             hasContext   |-> FALSE,
             language     |-> language ]
      ELSE [ systemPrompt |-> getContextualPrompt(ContextText(relevantChunks), isAr),
             userPrompt   |-> buildUserPrompt(q, ContextText(relevantChunks), isAr),
             hasContext   |-> TRUE,
             sources      |-> SourcesOf(relevantChunks),
             language     |-> language,
             chunkCount   |-> Len(relevantChunks) ]

(***************************************************************************)
(* Texts of the model.                                                     *)
(***************************************************************************)
RECURSIVE TextsUpTo(_, _)
TextsUpTo(alphabet, n) ==
  IF n = 0 THEN {<<>>}
  ELSE LET shorter == TextsUpTo(alphabet, n - 1)
       IN  shorter \cup {Append(t, c) : t \in shorter, c \in alphabet}

\* "ma hiya as'ar al-dawrat": what are the prices of the courses
ArabicPricesQuery ==
  <<1605, 1575, 32, 1607, 1610, 32, 1571, 1587, 1593, 1575, 1585, 32,
    1575, 1604, 1583, 1608, 1585, 1575, 1578>>

\* "as'ar dawrat": two keys of the dictionary
ArabicKeysQuery ==
  <<1571, 1587, 1593, 1575, 1585, 32, 1583, 1608, 1585, 1575, 1578>>

ConstructorQuery == <<99, 111, 110, 115, 116, 114, 117, 99, 116, 111, 114>>

\* "What courses do you offer and their prices?"
CoursesPricesQuery ==
  <<87, 104, 97, 116, 32, 99, 111, 117, 114, 115, 101, 115, 32, 100, 111, 32,
    121, 111, 117, 32, 111, 102, 102, 101, 114, 32, 97, 110, 100, 32, 116, 104,
    101, 105, 114, 32, 112, 114, 105, 99, 101, 115, 63>>

\* "Full-Stack Bootcamp costs $500. Data Science Bootcamp costs $700."
BootcampText ==
  <<70, 117, 108, 108, 45, 83, 116, 97, 99, 107, 32, 66, 111, 111, 116, 99, 97,
    109, 112, 32, 99, 111, 115, 116, 115, 32, 36, 53, 48, 48, 46, 32, 68, 97,
    116, 97, 32, 83, 99, 105, 101, 110, 99, 101, 32, 66, 111, 111, 116, 99, 97,
    109, 112, 32, 99, 111, 115, 116, 115, 32, 36, 55, 48, 48, 46>>

CoursesTxt == <<99, 111, 117, 114, 115, 101, 115, 46, 116, 120, 116>>   \* courses.txt
PricingTxt == <<112, 114, 105, 99, 105, 110, 103, 46, 116, 120, 116>>   \* pricing.txt
FaqsTxt    == <<102, 97, 113, 115, 46, 116, 120, 116>>                  \* faqs.txt

Price    == <<112, 114, 105, 99, 101>>
Course   == <<99, 111, 117, 114, 115, 101>>
Training == <<116, 114, 97, 105, 110, 105, 110, 103>>

NotesMd    == <<110, 111, 116, 101, 115, 46, 109, 100>>                 \* notes.md

\* A file of the data directory: its name, whether reading it succeeds ("yes",
\* "no", or "flaky": some reads do and some do not), its content, and the
\* pieces the text splitter returns for the content.
CoursesFile ==
  [ name |-> CoursesTxt, readable |-> "yes",
    content |-> <<97, 97, 10, 97, 97>>,                       \* "aa\naa"
    pieces  |-> << <<97, 97>>, <<97, 97>> >> ]                \* "aa", "aa"
PricingFile ==
  [ name |-> PricingTxt, readable |-> "yes",
    content |-> <<65, 97, 32, 97, 97, 10, 32, 10, 97>>,       \* "Aa aa\n \na"
    pieces  |-> << <<65, 97, 32, 97, 97>>, <<32>>, <<97>> >> ]  \* "Aa aa", " ", "a"
FaqsFile ==
  [ name |-> FaqsTxt, readable |-> "yes",
    content |-> <<1583, 1608, 1585, 1575, 1578, 32, 97, 97>>,      \* "dawrat aa"
    pieces  |-> << <<1583, 1608, 1585, 1575, 1578, 32, 97, 97>> >> ]
NotesFile ==
  [ name |-> NotesMd, readable |-> "yes",
    content |-> <<97, 97>>, pieces |-> << <<97, 97>> >> ]
BootcampFile ==
  [ name |-> CoursesTxt, readable |-> "yes",
    content |-> BootcampText, pieces |-> <<BootcampText>> ]
\* courses.txt with a text that splits into seven pieces "aa"
RepeatedFile ==
  [ name |-> CoursesTxt, readable |-> "yes",
    content |-> <<97, 97, 10, 97, 97, 10, 97, 97, 10, 97, 97, 10, 97, 97, 10,
                  97, 97, 10, 97, 97>>,
    pieces  |-> [i \in 1..7 |-> <<97, 97>>] ]

\* The files a data directory of the model can hold, in the order fs.readdir
\* lists them
DirectoryFiles == <<CoursesFile, FaqsFile, NotesFile, PricingFile>>

\* const textFiles = files.filter(file => file.endsWith('.txt'))
TextFilesUnfiltered(files) == files

TextFiles(files) == SelectSeq(files, LAMBDA f : EndsWithTxt(f.name))

\* What processFile adds to this.documents for a file that was read: nothing
\* for a file that is empty after trimming.
ProcessedFile(file) ==
  IF trim(file.content) = <<>> THEN <<>>
  ELSE ChunkDocuments(file.name, file.pieces)

\* The documents of a load of the files that runs alone and reads every file
RECURSIVE LoadAll(_)
LoadAll(files) ==
  IF files = <<>> THEN <<>>
  ELSE ProcessedFile(Head(files)) \o LoadAll(Tail(files))

\* The listing of the directory that holds the files numbered in S
Listing(S) ==
  LET idx == SelectSeq([i \in 1..Len(DirectoryFiles) |-> i], LAMBDA i : i \in S)
  IN  [n \in 1..Len(idx) |-> DirectoryFiles[idx[n]]]

\* The listings of the directories of at most n files
Listings(n) ==
  {Listing(S) : S \in {T \in SUBSET (1..Len(DirectoryFiles)) : Cardinality(T) <= n}}

BootcampCorpus == LoadAll(<<BootcampFile>>)

SearchListings ==
  {fs \in Listings(MaxFiles) : TextFiles(fs) # <<>>}
    \cup {<<BootcampFile>>, <<RepeatedFile>>}

QueryAlphabet == {97, 32, 63}   \* a space ?

SearchQueries ==
  TextsUpTo(QueryAlphabet, MaxQueryLen)
    \cup { CoursesPricesQuery, ArabicKeysQuery, ArabicPricesQuery,
           ConstructorQuery, Course,
           <<97, 97, 32, 32, 97, 97>>,     \* "aa  aa", two spaces
           <<65, 65>> }                    \* "AA"

TopKs == {<<>>} \cup {<<k>> : k \in 0..MaxTopK}

NoKeywords == [threw |-> FALSE, original |-> <<>>, expanded |-> <<>>, language |-> "en"]
NoSearch   == [status |-> "none", scored |-> <<>>, ranked |-> <<>>, results |-> <<>>]
NoPrompt   == [hasContext |-> FALSE, language |-> "none"]
NoStats    == [documentsLoaded |-> 0, chunksCreated |-> 0, lastUpdate |-> "null"]
NoCall     == [ op |-> "none", pc |-> "idle", files |-> <<>>, idx |-> 0,
                error |-> "none", corpus |-> <<>>, results |-> <<>> ]

TextIdle   == normOnce = <<>> /\ normTwice = <<>> /\ keywords = NoKeywords
SearchIdle == topK = <<>> /\ searchOut = NoSearch /\ promptInfo = NoPrompt
CallsIdle  == calls = <<>>
NoRequest  == [pc |-> "none"]
NoPost     == [route |-> "none", limiterRan |-> FALSE, outcome |-> "none"]
ChatIdle   == request = NoRequest /\ nodeEnv = "production"
\* The clients of the model, by req.ip
Clients    == {"a", "b"}
\* const requests = new Map(): a client the Map does not hold is a client with
\* the empty list, which is what the limiter then sets for it.
NoRequests == [clientId \in Clients |-> <<>>]
RateIdle   == now = 0 /\ requests = NoRequests /\ lastPost = NoPost
NoHealth   == [checks |-> 0, status |-> "none", statusCode |-> 0,
               connected |-> FALSE, rag |-> "none"]
HealthIdle == health = NoHealth
\* The store as the constructor leaves it
StoreNew   == documents = <<>> /\ isInitialized = FALSE /\ stats = NoStats

(***************************************************************************)
(* The language utilities as pure functions: the inputs are every text of  *)
(* at most MaxTextLen characters over a small alphabet (a letter in both   *)
(* cases, two whitespace characters, a diacritic, the tatweel), and the    *)
(* queries the documentation and the tests use.                            *)
(***************************************************************************)
TextAlphabet == {97, 65, 32, 10, 1611, 1600}   \* a A space newline fathatan tatweel

TextInputs ==
  TextsUpTo(TextAlphabet, MaxTextLen)
    \cup {ArabicPricesQuery, ArabicKeysQuery, ConstructorQuery}

TextInit ==
  /\ query \in TextInputs
  /\ phase = "input"
  /\ TextIdle
  /\ SearchIdle
  /\ StoreNew
  /\ dir = [state |-> "ok", files |-> <<>>]
  /\ CallsIdle
  /\ ChatIdle
  /\ RateIdle
  /\ HealthIdle

Normalize ==
  /\ phase = "input"
  /\ normOnce' = normalizeText(query)
  /\ phase' = "normalized"
  /\ UNCHANGED <<query, normTwice, keywords, searchVars, storeVars, dir, calls, httpVars>>

NormalizeAgain ==
  /\ phase = "normalized"
  /\ normTwice' = normalizeText(normOnce)
  /\ phase' = "renormalized"
  /\ UNCHANGED <<query, normOnce, keywords, searchVars, storeVars, dir, calls, httpVars>>

ExtractKeywords ==
  /\ phase = "input"
  /\ keywords' =
       IF expandArabicKeywordsThrows(KeywordWords(query))
       THEN [NoKeywords EXCEPT !.threw = TRUE]
       ELSE [threw |-> FALSE] @@ extractKeywords(query)
  /\ phase' = "keywords"
  /\ UNCHANGED <<query, normOnce, normTwice, searchVars, storeVars, dir, calls, httpVars>>

TextNext == Normalize \/ NormalizeAgain \/ ExtractKeywords

TextSpec == TextInit /\ [][TextNext]_vars

(***************************************************************************)
(* Retrieval on a store that a load of the directory has filled: a query   *)
(* and a topK, then the search and the prompt bundle built from its result.*)
(***************************************************************************)
SearchInit ==
  /\ query \in SearchQueries
  /\ topK \in TopKs
  /\ \E listing \in SearchListings :
       /\ dir = [state |-> "ok", files |-> listing]
       /\ documents = LoadAll(TextFiles(listing))
       /\ stats = [ documentsLoaded |-> Len(TextFiles(listing)),
                    chunksCreated   |-> Len(LoadAll(TextFiles(listing))),
                    lastUpdate      |-> "set" ]
  /\ isInitialized = TRUE
  /\ phase = "input"
  /\ searchOut = NoSearch
  /\ promptInfo = NoPrompt
  /\ TextIdle
  /\ CallsIdle
  /\ ChatIdle
  /\ RateIdle
  /\ HealthIdle

Search ==
  /\ phase = "input"
  /\ searchOut' = searchRelevantContext(documents, query, topK)
  /\ phase' = "searched"
  /\ UNCHANGED <<query, topK, storeVars, dir, calls, promptInfo, textVars, httpVars>>

\* processMessage hands the chunks of a search that returned to buildContextPrompt
BuildPrompt ==
  /\ phase = "searched"
  /\ searchOut.status = "ok"
  /\ promptInfo' = buildContextPrompt(query, searchOut.results)
  /\ phase' = "prompted"
  /\ UNCHANGED <<query, topK, storeVars, dir, calls, searchOut, textVars, httpVars>>

SearchNext == Search \/ BuildPrompt

SearchSpec == SearchInit /\ [][SearchNext]_vars

(***************************************************************************)
(* The store under calls that overlap.  A step is one turn of the event    *)
(* loop: the synchronous start of a call, or the code that runs when an    *)
(* awaited fs.stat, fs.readdir or fs.readFile of a call completes, up to   *)
(* the next such await.  The operations of different calls complete in any *)
(* order.  The text splitter does no input or output: its await resumes in *)
(* the turn of the read that precedes it.                                  *)
(***************************************************************************)
BlankTxt == <<98, 108, 97, 110, 107, 46, 116, 120, 116>>             \* blank.txt

BlankFile ==
  [ name |-> BlankTxt, readable |-> "yes", content |-> <<32, 10>>, pieces |-> <<>> ]
\* pricing.txt on a disk whose reads sometimes fail
FlakyPricingFile == [PricingFile EXCEPT !.readable = "flaky"]

DirPool ==
  { [state |-> "missing", files |-> <<>>],
    [state |-> "notdir",  files |-> <<>>],
    [state |-> "ok",      files |-> <<>>],
    [state |-> "ok",      files |-> <<NotesFile>>],
    [state |-> "ok",      files |-> <<CoursesFile, NotesFile, PricingFile>>],
    [state |-> "ok",      files |-> <<CoursesFile, FlakyPricingFile>>],
    [state |-> "ok",      files |-> <<BlankFile, CoursesFile>>] }

StoreQuery == <<97, 97>>                                              \* "aa"

\* The listings the data directory had when the server started: the files of
\* the directory can have been replaced since.
StartupListings ==
  {d.files : d \in {e \in DirPool : e.state = "ok" /\ TextFiles(e.files) # <<>>}}

\* The store as the constructor leaves it, or as the initialize() of the
\* startup, which runs alone, left it when it succeeded.
LoadInit ==
  /\ dir \in DirPool
  /\ \/ StoreNew
     \/ /\ dir.state = "ok"
        /\ TextFiles(dir.files) # <<>>
        /\ \E startup \in StartupListings :
             /\ documents = LoadAll(TextFiles(startup))
             /\ stats = [ documentsLoaded |-> Len(TextFiles(startup)),
                          chunksCreated   |-> Len(LoadAll(TextFiles(startup))),
                          lastUpdate      |-> "set" ]
        /\ isInitialized = TRUE
  /\ calls = <<>>
  /\ ChatIdle
  /\ RateIdle
  /\ HealthIdle
  /\ query = StoreQuery
  /\ phase = "store"
  /\ TextIdle
  /\ SearchIdle

NewCall(op, pc) == [NoCall EXCEPT !.op = op, !.pc = pc]

\* The end of searchRelevantContext on the documents docs: the chunks returned,
\* or the RAGError of its catch block.
SearchCompleted(call, docs) ==
  LET Completed(out) ==
        IF out.status = "ok"
        THEN [call EXCEPT !.pc = "done", !.corpus = docs, !.results = out.results]
        ELSE [call EXCEPT !.pc = "failed", !.error = "SearchFailed", !.corpus = docs]
  IN  With(searchRelevantContext(docs, query, topK), Completed)

\* initialize(): returns at once on an initialized store, else starts
\* validateDataPath, which awaits fs.stat.
CallInitialize ==
  /\ Len(calls) < NumCalls
  /\ calls' = Append(calls, NewCall("initialize",
                                    IF isInitialized THEN "done" ELSE "stat"))
  /\ UNCHANGED <<query, phase, textVars, searchVars, storeVars, dir, httpVars>>

\* refresh(): this.isInitialized = false; await this.initialize()
CallRefresh ==
  /\ Len(calls) < NumCalls
  /\ isInitialized' = FALSE
  /\ calls' = Append(calls, NewCall("refresh", "stat"))
  /\ UNCHANGED <<query, phase, textVars, searchVars, documents, stats, dir, httpVars>>

\* searchRelevantContext(query): on an initialized store it scores
\* this.documents in the turn of the call; else it awaits initialize() first.
CallSearch ==
  /\ Len(calls) < NumCalls
  /\ calls' = Append(calls,
                     IF isInitialized
                     THEN SearchCompleted(NewCall("search", "idle"), documents)
                     ELSE NewCall("search", "stat"))
  /\ UNCHANGED <<query, phase, textVars, searchVars, storeVars, dir, httpVars>>

\* A load that keeps the documents it finds and appends to them.
StatDoneKeepsDocuments(p) ==
  /\ calls[p].pc = "stat"
  /\ IF dir.state = "ok"
     THEN /\ stats' = [stats EXCEPT !.documentsLoaded = 0, !.chunksCreated = 0]
          /\ calls' = [calls EXCEPT ![p].pc = "readdir"]
          /\ UNCHANGED documents
     ELSE /\ calls' = [calls EXCEPT ![p].pc = "failed",
                                    ![p].error = IF dir.state = "missing"
                                                 THEN "DirNotFound"
                                                 ELSE "NotDirectory"]
          /\ UNCHANGED <<documents, stats>>
  /\ UNCHANGED <<query, phase, textVars, searchVars, isInitialized, dir, httpVars>>

\* fs.stat completes: validateDataPath throws for a path that is missing or is
\* no directory; else loadAndProcessDocuments empties the store and awaits
\* fs.readdir.
StatDone(p) ==
  /\ calls[p].pc = "stat"
  /\ IF dir.state = "ok"
     THEN /\ documents' = <<>>
          /\ stats' = [stats EXCEPT !.documentsLoaded = 0, !.chunksCreated = 0]
          /\ calls' = [calls EXCEPT ![p].pc = "readdir"]
     ELSE /\ calls' = [calls EXCEPT ![p].pc = "failed",
                                    ![p].error = IF dir.state = "missing"
                                                 THEN "DirNotFound"
                                                 ELSE "NotDirectory"]
          /\ UNCHANGED <<documents, stats>>
  /\ UNCHANGED <<query, phase, textVars, searchVars, isInitialized, dir, httpVars>>

\* fs.readdir completes: the load throws when no name ends with .txt; else
\* processFile of the first text file awaits fs.readFile.
ReaddirDone(p) ==
  /\ calls[p].pc = "readdir"
  /\ calls' = IF TextFiles(dir.files) = <<>>
              THEN [calls EXCEPT ![p].pc = "failed", ![p].error = "NoTextFiles"]
              ELSE [calls EXCEPT ![p].pc = "readFile",
                                 ![p].files = TextFiles(dir.files),
                                 ![p].idx = 1]
  /\ UNCHANGED <<query, phase, textVars, searchVars, storeVars, dir, httpVars>>

\* fs.readFile rejects: processFile rethrows, the load and the call fail.
ReadFileFailed(p) ==
  /\ calls[p].pc = "readFile"
  /\ calls[p].files[calls[p].idx].readable = "flaky"
  /\ calls' = [calls EXCEPT ![p].pc = "failed", ![p].error = "ReadFailed"]
  /\ UNCHANGED <<query, phase, textVars, searchVars, storeVars, dir, httpVars>>

\* A load that counts every piece of the splitter as a chunk created, stored
\* or not.
ReadFileDoneCountsPieces(p) ==
  /\ calls[p].pc = "readFile"
  /\ LET call   == calls[p]
         file   == call.files[call.idx]
         chunks == ProcessedFile(file)
         docs   == documents \o chunks
         final  == call.idx = Len(call.files)
     IN  /\ documents' = docs
         /\ stats' = [stats EXCEPT !.documentsLoaded = @ + 1,
                                   !.chunksCreated = @ + Len(file.pieces),
                                   !.lastUpdate = IF final THEN "set" ELSE @]
         /\ isInitialized' = IF final THEN TRUE ELSE isInitialized
         /\ calls' = [calls EXCEPT ![p] =
                        IF ~final THEN [call EXCEPT !.idx = @ + 1]
                        ELSE IF call.op = "search" THEN SearchCompleted(call, docs)
                        ELSE [call EXCEPT !.pc = "done"]]
  /\ UNCHANGED <<query, phase, textVars, searchVars, dir, httpVars>>

\* fs.readFile completes: processFile pushes the chunks of the file; the loop
\* goes on to the next file, or the load ends: initialize sets isInitialized and
\* returns, and a search that awaited it scores this.documents.
ReadFileDone(p) ==
  /\ calls[p].pc = "readFile"
  /\ LET call   == calls[p]
         chunks == ProcessedFile(call.files[call.idx])
         docs   == documents \o chunks
         last   == call.idx = Len(call.files)
     IN  /\ documents' = docs
         /\ stats' = [stats EXCEPT !.documentsLoaded = @ + 1,
                                   !.chunksCreated = @ + Len(chunks),
                                   !.lastUpdate = IF last THEN "set" ELSE @]
         /\ isInitialized' = IF last THEN TRUE ELSE isInitialized
         /\ calls' = [calls EXCEPT ![p] =
                        IF ~last THEN [call EXCEPT !.idx = @ + 1]
                        ELSE IF call.op = "search" THEN SearchCompleted(call, docs)
                        ELSE [call EXCEPT !.pc = "done"]]
  /\ UNCHANGED <<query, phase, textVars, searchVars, dir, httpVars>>

LoadNext ==
  \/ CallInitialize
  \/ CallRefresh
  \/ CallSearch
  \/ \E p \in 1..Len(calls) : StatDone(p)
  \/ \E p \in 1..Len(calls) : ReaddirDone(p)
  \/ \E p \in 1..Len(calls) : ReadFileFailed(p)
  \/ \E p \in 1..Len(calls) : ReadFileDone(p)

LoadSpec == LoadInit /\ [][LoadNext]_vars

(***************************************************************************)
(* GET /api/health while loads of the store run.  The server listens only  *)
(* after ChatService.initialize() has initialized the store and the        *)
(* inference service: the store starts loaded and isConnected, which no    *)
(* code resets, is true.  getHealthStatus reads the store in the turn of   *)
(* the call (getStats() is an argument of Promise.all) and awaits          *)
(* client.list() of the inference service, whose outcome is chosen here.   *)
(***************************************************************************)
\* OllamaService.isConnected once the server listens
IsConnected == TRUE

\* OllamaService.getHealthStatus: listOk is whether client.list() resolves
OllamaHealth(isConnected, listOk) ==
  IF ~isConnected THEN [status |-> "disconnected", connected |-> FALSE]
  ELSE IF listOk THEN [status |-> "healthy", connected |-> TRUE]
  ELSE [status |-> "error", connected |-> FALSE]

\* RAGSystem.getStats()
getStats ==
  [ documentsLoaded   |-> stats.documentsLoaded,
    chunksCreated     |-> stats.chunksCreated,
    lastUpdate        |-> stats.lastUpdate,
    isInitialized     |-> isInitialized,
    documentsInMemory |-> Len(documents) ]

\* ChatService.getHealthStatus: neither of the two promises rejects, so its
\* catch, which answers the status "error", is never entered.
getHealthStatus(ollamaHealth, ragStats) ==
  [ status    |-> IF ollamaHealth.connected /\ ragStats.isInitialized
                  THEN "healthy" ELSE "degraded",
    connected |-> ollamaHealth.connected,
    rag       |-> ragStats ]

\* The status code of router.get('/health')
HealthStatusCode(status) ==
  IF status = "healthy" THEN 200 ELSE IF status = "degraded" THEN 503 ELSE 500

\* The directories of the server whose health is checked
HealthDirs ==
  { [state |-> "ok", files |-> <<CoursesFile, FlakyPricingFile>>],
    [state |-> "ok", files |-> <<CoursesFile, NotesFile, PricingFile>>] }

HealthInit ==
  /\ dir \in HealthDirs
  /\ documents = LoadAll(TextFiles(dir.files))
  /\ stats = [ documentsLoaded |-> Len(TextFiles(dir.files)),
               chunksCreated   |-> Len(LoadAll(TextFiles(dir.files))),
               lastUpdate      |-> "set" ]
  /\ isInitialized = TRUE
  /\ calls = <<>>
  /\ health = NoHealth
  /\ ChatIdle
  /\ RateIdle
  /\ query = StoreQuery
  /\ phase = "health"
  /\ TextIdle
  /\ SearchIdle

\* GET /api/health: the answer of the route
GetHealth ==
  /\ health.checks < MaxHealthChecks
  /\ \E listOk \in BOOLEAN :
       LET healthStatus == getHealthStatus(OllamaHealth(IsConnected, listOk), getStats)
       IN  health' = [ checks     |-> health.checks + 1,
                       status     |-> healthStatus.status,
                       statusCode |-> HealthStatusCode(healthStatus.status),
                       connected  |-> healthStatus.connected,
                       rag        |-> healthStatus.rag ]
  /\ UNCHANGED <<query, phase, textVars, searchVars, storeVars, dir, calls,
                 chatVars, rateVars>>

HealthNext ==
  \/ LoadNext
  \/ GetHealth

HealthSpec == HealthInit /\ [][HealthNext]_vars

(***************************************************************************)
(* A chat request: ChatService.processMessage on req.body, the inference   *)
(* call it awaits, and the HTTP response of the route or of errorHandler.  *)
(***************************************************************************)
\* message.length > 2000
MaxMessageLength == 2000

\* The alternatives of the four greetingPatterns, each anchored with ^ and $
GreetingPatterns ==
  << \* hi hello hey, and seven Arabic greetings
     { <<104, 105>>,
    <<104, 101, 108, 108, 111>>,
    <<104, 101, 121>>,
    <<1575, 1586, 1610, 1603>>,
    <<1575, 1607, 1604, 1575>>,
    <<1571, 1607, 1604, 1575>>,
    <<1605, 1585, 1581, 1576, 1575>>,
    <<1605, 1585, 1581, 1576, 1575, 1611>>,
    <<1575, 1604, 1587, 1604, 1575, 1605, 32, 1593, 1604, 1610, 1603, 1605>>,
    <<1587, 1604, 1575, 1605>> },
     \* good morning, good evening, and their Arabic forms
     { <<103, 111, 111, 100, 32, 109, 111, 114, 110, 105, 110, 103>>,
    <<103, 111, 111, 100, 32, 101, 118, 101, 110, 105, 110, 103>>,
    <<1589, 1576, 1575, 1581, 32, 1575, 1604, 1582, 1610, 1585>>,
    <<1605, 1587, 1575, 1569, 32, 1575, 1604, 1582, 1610, 1585>> },
     \* how are you, and six Arabic forms
     { <<104, 111, 119, 32, 97, 114, 101, 32, 121, 111, 117>>,
    <<1575, 1586, 1610, 1603>>,
    <<1575, 1586, 1575, 1610>>,
    <<1603, 1610, 1601, 32, 1581, 1575, 1604, 1603>>,
    <<1573, 1610, 1607, 32, 1575, 1604, 1571, 1582, 1576, 1575, 1585>>,
    <<1593, 1575, 1605, 1604, 32, 1575, 1610, 1607>>,
    <<1575, 1610, 1607, 32, 1575, 1582, 1576, 1575, 1585, 1603>> },
     \* what'?s up, sup, and two Arabic forms
     { <<119, 104, 97, 116, 39, 115, 32, 117, 112>>,
    <<119, 104, 97, 116, 115, 32, 117, 112>>,
    <<115, 117, 112>>,
    <<1575, 1610, 1607, 32, 1575, 1582, 1576, 1575, 1585, 1603>>,
    <<1573, 1610, 1607, 32, 1571, 1582, 1576, 1575, 1585, 1603>> } >>

Morning   == <<109, 111, 114, 110, 105, 110, 103>>
SabahAr   == <<1589, 1576, 1575, 1581>>
Evening   == <<101, 118, 101, 110, 105, 110, 103>>
MasaAr    == <<1605, 1587, 1575, 1569>>
HowAreYou == <<104, 111, 119, 32, 97, 114, 101, 32, 121, 111, 117>>
HowAreYouAr ==
  { <<1575, 1586, 1610, 1603>>,
    <<1575, 1586, 1575, 1610>>,
    <<1593, 1575, 1605, 1604>>,
    <<1603, 1610, 1601, 32, 1581, 1575, 1604, 1603>> }

NoQuickResponse == [isQuickResponse |-> FALSE]

\* The canned reply of getQuickResponse: response names the entry of
\* this.quickResponses[language] that is returned.
QuickResponse(language, entry) ==
  [ response        |-> <<language, entry>>,
    hasContext      |-> FALSE,
    language        |-> language,
    sources         |-> <<>>,
    chunkCount      |-> 0,
    model           |-> "quick-response",
    tokens          |-> 0,
    isQuickResponse |-> TRUE ]

\* A quick response that compares the message as typed, in its own case.
getQuickResponseCaseSensitive(message) ==
  LET trimmedMessage == trim(message)
      language       == detectLanguage(message)
  IN  IF \E i \in 1..Len(GreetingPatterns) : trimmedMessage \in GreetingPatterns[i]
      THEN IF Includes(trimmedMessage, Morning) \/ Includes(trimmedMessage, SabahAr)
           THEN QuickResponse(language, "morning")
           ELSE IF Includes(trimmedMessage, Evening) \/ Includes(trimmedMessage, MasaAr)
           THEN QuickResponse(language, "evening")
           ELSE IF \/ Includes(trimmedMessage, HowAreYou)
                   \/ \E h \in HowAreYouAr : Includes(trimmedMessage, h)
           THEN QuickResponse(language, "howAreYou")
           ELSE QuickResponse(language, "greeting")
      ELSE NoQuickResponse

getQuickResponse(message) ==
  LET trimmedMessage == toLowerCase(trim(message))
      language       == detectLanguage(message)
  IN  IF \E i \in 1..Len(GreetingPatterns) : trimmedMessage \in GreetingPatterns[i]
      THEN IF Includes(trimmedMessage, Morning) \/ Includes(trimmedMessage, SabahAr)
           THEN QuickResponse(language, "morning")
           ELSE IF Includes(trimmedMessage, Evening) \/ Includes(trimmedMessage, MasaAr)
           THEN QuickResponse(language, "evening")
           ELSE IF \/ Includes(trimmedMessage, HowAreYou)
                   \/ \E h \in HowAreYouAr : Includes(trimmedMessage, h)
           THEN QuickResponse(language, "howAreYou")
           ELSE QuickResponse(language, "greeting")
      ELSE NoQuickResponse

\* The errors of utils/errors.js: the message is the list of the texts it is
\* concatenated from, the innermost cause last.
AppError(message, statusCode, code) ==
  [ class |-> "AppError", statusCode |-> statusCode, code |-> code,
    message |-> message, field |-> "null" ]

ValidationError(message, field) ==
  [ class |-> "ValidationError", statusCode |-> 400, code |-> "VALIDATION_ERROR",
    message |-> <<message>>, field |-> field ]

OllamaError(message) ==
  [ class |-> "OllamaError", statusCode |-> 502, code |-> "OLLAMA_ERROR",
    message |-> message, field |-> "null" ]

RAGError(message) ==
  [ class |-> "RAGError", statusCode |-> 500, code |-> "RAG_ERROR",
    message |-> message, field |-> "null" ]

\* error instanceof AppError
InstanceOfAppError(error) ==
  error.class \in {"AppError", "ValidationError", "OllamaError", "RAGError", "ConfigError"}

\* The bodies of the requests of the model: req.body without a message, with a
\* message that is a number, or with a message that is a string.
Body(kind, number, text) == [kind |-> kind, number |-> number, text |-> text]

\* A text followed by spaces up to the length n
PaddedTo(text, n) == [i \in 1..n |-> IF i <= Len(text) THEN text[i] ELSE 32]

Hello       == <<104, 101, 108, 108, 111>>
GoodMorning == <<103, 111, 111, 100, 32, 109, 111, 114, 110, 105, 110, 103>>
Izzayak     == <<1575, 1586, 1610, 1603>>

Bodies ==
  { Body("undefined", 0, <<>>),                       \* no body at all
    Body("object", 0, <<>>),                          \* {}
    Body("number", 0, <<>>),                          \* {message: 0}
    Body("number", 5, <<>>) }                         \* {message: 5}
  \cup {Body("string", 0, text) : text \in
         { <<>>, <<32, 32>>, <<97, 97>>, <<32, 97, 97, 10>>,
           Hello, <<32, 72, 101, 108, 108, 111, 32>>,        \* " Hello "
           GoodMorning, Izzayak,
           <<63, 63>>,                                       \* "??"
           ConstructorQuery, Course, ArabicPricesQuery, ArabicKeysQuery,
           PaddedTo(<<97, 97>>, MaxMessageLength),
           PaddedTo(<<97, 97>>, MaxMessageLength + 1) }}

\* A validation that measures the trimmed message.
validateChatInputTrimmedLength(input) ==
  LET Invalid(message, field) ==
        [valid |-> FALSE, message |-> <<>>, error |-> ValidationError(message, field)]
  IN  IF input.kind = "undefined"
      THEN Invalid("Request body must be a valid object", "null")
      ELSE IF \/ input.kind = "object"
              \/ (input.kind = "number" /\ input.number = 0)
              \/ (input.kind = "string" /\ input.text = <<>>)
      THEN Invalid("Message is required", "message")
      ELSE IF input.kind # "string"
      THEN Invalid("Message must be a string", "message")
      ELSE IF Len(trim(input.text)) = 0
      THEN Invalid("Message cannot be empty", "message")
      ELSE IF Len(trim(input.text)) > MaxMessageLength
      THEN Invalid("Message too long (max 2000 characters)", "message")
      ELSE [valid |-> TRUE, message |-> trim(input.text), error |-> "none"]

\* Validator.validateChatInput: the validated input, or the error it throws
validateChatInput(input) ==
  LET Invalid(message, field) ==
        [valid |-> FALSE, message |-> <<>>, error |-> ValidationError(message, field)]
  IN  IF input.kind = "undefined"
      THEN Invalid("Request body must be a valid object", "null")
      ELSE IF \/ input.kind = "object"
              \/ (input.kind = "number" /\ input.number = 0)
              \/ (input.kind = "string" /\ input.text = <<>>)
      THEN Invalid("Message is required", "message")
      ELSE IF input.kind # "string"
      THEN Invalid("Message must be a string", "message")
      ELSE IF Len(trim(input.text)) = 0
      THEN Invalid("Message cannot be empty", "message")
      ELSE IF Len(input.text) > MaxMessageLength
      THEN Invalid("Message too long (max 2000 characters)", "message")
      ELSE [valid |-> TRUE, message |-> trim(input.text), error |-> "none"]

\* The message of the error that makes searchRelevantContext fail
SearchFailureCause(q) ==
  IF expandArabicKeywordsThrows(KeywordWords(q))
  THEN "englishEquivalents.forEach is not a function"
  ELSE "Invalid regular expression"

\* What OllamaService.generateResponse can end with: a content, or the message
\* of the error of the client
OllamaContents == {"an answer", ""}
OllamaCauses   == {"connect ECONNREFUSED", "model not found"}

\* errorHandler of middleware/index.js: the status and the JSON body
errorHandler(error, env) ==
  LET known == InstanceOfAppError(error)
  IN  [ status |-> IF known THEN error.statusCode ELSE 500,
        error  |-> [ code     |-> IF known THEN error.code ELSE "INTERNAL_ERROR",
                     message  |-> IF known THEN error.message
                                  ELSE <<"An internal server error occurred">>,
                     field    |-> IF error.class = "ValidationError" /\ error.field # "null"
                                  THEN error.field ELSE "absent",
                     hasStack |-> env = "development" ] ]

\* The catch of processMessage: a ValidationError as it is, every other error
\* as a new AppError
processMessageCatch(error) ==
  IF error.class = "ValidationError" THEN error
  ELSE AppError(<<"Failed to process message: ">> \o error.message,
                500, "CHAT_PROCESSING_ERROR")

\* A response that never reports context.
ChatResponseWithoutContext(info, content) ==
  [ response   |-> content,
    hasContext |-> FALSE,
    language   |-> info.language,
    sources    |-> <<>>,
    chunkCount |-> 0,
    model      |-> "config.ollama.model",
    tokens     |-> 0,
    isQuickResponse |-> FALSE ]

\* The response processMessage builds from the prompt bundle and the content of
\* the inference call: promptInfo.sources || [] and promptInfo.chunkCount || 0
ChatResponse(info, content) ==
  [ response   |-> content,
    hasContext |-> info.hasContext,
    language   |-> info.language,
    sources    |-> IF info.hasContext THEN info.sources ELSE <<>>,
    chunkCount |-> IF info.hasContext /\ info.chunkCount # 0
                   THEN info.chunkCount ELSE 0,
    model      |-> "config.ollama.model",
    tokens     |-> 0,
    isQuickResponse |-> FALSE ]

\* res.json(response) of the chat route
Ok(response) == [status |-> 200, response |-> response]

NewRequest(body) ==
  [ pc |-> "received", body |-> body, message |-> <<>>, chunks |-> <<>>,
    promptInfo |-> NoPrompt, searches |-> 0, generations |-> 0,
    failedIn |-> "none", cause |-> "none", http |-> [status |-> 0] ]

\* processMessage fails: the route hands the error to errorHandler
Failed(req, component, cause, error) ==
  [req EXCEPT !.pc = "answered", !.failedIn = component, !.cause = cause,
              !.http = errorHandler(processMessageCatch(error), nodeEnv)]

ChatInit ==
  /\ request \in {NewRequest(body) : body \in Bodies}
  /\ nodeEnv \in {"production", "development"}
  /\ \E listing \in SearchListings :
       /\ dir = [state |-> "ok", files |-> listing]
       /\ documents = LoadAll(TextFiles(listing))
       /\ stats = [ documentsLoaded |-> Len(TextFiles(listing)),
                    chunksCreated   |-> Len(LoadAll(TextFiles(listing))),
                    lastUpdate      |-> "set" ]
  /\ isInitialized = TRUE
  /\ query = <<>>
  /\ phase = "chat"
  /\ TextIdle
  /\ SearchIdle
  /\ CallsIdle
  /\ RateIdle
  /\ HealthIdle

\* A processMessage that answers without context when the search fails.
ProcessMessageWithoutRetrieval ==
  /\ request.pc = "received"
  /\ LET validated == validateChatInput(request.body)
         message   == validated.message
         quick     == getQuickResponse(message)
         out       == searchRelevantContext(documents, message, <<>>)
         searched  == [request EXCEPT !.message = message, !.searches = 1]
         chunks    == IF out.status = "ok" THEN out.results ELSE <<>>
     IN  request' =
           IF ~validated.valid
           THEN Failed(request, "validation", validated.error.message[1], validated.error)
           ELSE IF quick.isQuickResponse
           THEN [request EXCEPT !.pc = "answered", !.message = message, !.http = Ok(quick)]
           ELSE [searched EXCEPT !.pc = "generating",
                                 !.chunks = chunks,
                                 !.promptInfo = buildContextPrompt(message, chunks),
                                 !.generations = 1]
  /\ UNCHANGED <<query, phase, textVars, searchVars, storeVars, dir, calls, nodeEnv, rateVars, health>>

\* processMessage up to its first await that leaves the turn: validation, the
\* quick response, the search on the initialized store, the prompt bundle and
\* the start of the inference call.
ProcessMessage ==
  /\ request.pc = "received"
  /\ LET validated == validateChatInput(request.body)
         message   == validated.message
         quick     == getQuickResponse(message)
         out       == searchRelevantContext(documents, message, <<>>)
         searched  == [request EXCEPT !.message = message, !.searches = 1]
     IN  request' =
           IF ~validated.valid
           THEN Failed(request, "validation", validated.error.message[1], validated.error)
           ELSE IF quick.isQuickResponse
           THEN [request EXCEPT !.pc = "answered", !.message = message, !.http = Ok(quick)]
           ELSE IF out.status # "ok"
           THEN Failed(searched, "retrieval", SearchFailureCause(message),
                       RAGError(<<"Context search failed: ", SearchFailureCause(message)>>))
           ELSE [searched EXCEPT !.pc = "generating",
                                 !.chunks = out.results,
                                 !.promptInfo = buildContextPrompt(message, out.results),
                                 !.generations = 1]
  /\ UNCHANGED <<query, phase, textVars, searchVars, storeVars, dir, calls, nodeEnv, rateVars, health>>

\* The inference call returns: processMessage builds the response.
GenerateDone ==
  /\ request.pc = "generating"
  /\ \E content \in OllamaContents :
       request' = [request EXCEPT
         !.pc = "answered",
         !.http = Ok(ChatResponse(request.promptInfo, content))]
  /\ UNCHANGED <<query, phase, textVars, searchVars, storeVars, dir, calls, nodeEnv, rateVars, health>>

\* An inference failure that marks the store for a reload.
GenerateFailedResetsStore ==
  /\ request.pc = "generating"
  /\ \E cause \in OllamaCauses :
       request' = Failed(request, "inference", cause,
                         OllamaError(<<"Response generation failed: ", cause>>))
  /\ isInitialized' = FALSE
  /\ UNCHANGED <<query, phase, textVars, searchVars, documents, stats, dir, calls,
                 nodeEnv, rateVars, health>>

\* The inference call fails: generateResponse throws an OllamaError.
GenerateFailed ==
  /\ request.pc = "generating"
  /\ \E cause \in OllamaCauses :
       request' = Failed(request, "inference", cause,
                         OllamaError(<<"Response generation failed: ", cause>>))
  /\ UNCHANGED <<query, phase, textVars, searchVars, storeVars, dir, calls, nodeEnv, rateVars, health>>

ChatNext == ProcessMessage \/ GenerateDone \/ GenerateFailed

ChatSpec == ChatInit /\ [][ChatNext]_vars

(***************************************************************************)
(* The chat routes and the rate limiter in front of POST /api/chat.  A     *)
(* step is a POST of a client to one of the two chat routes, or the clock  *)
(* moving on.                                                              *)
(***************************************************************************)
\* createRateLimiter(60000, 30)
WindowMs == 60000
MaxRequestsPerWindow == 30

\* The instants at which requests arrive: a first instant, the last
\* millisecond of the window that starts there, and the first one after it.
Instants == {0, WindowMs - 1, WindowMs}

\* requests.get(clientId).filter(time => time > windowStart)
ClientRequests(clientId) ==
  SelectSeq(requests[clientId], LAMBDA time : time > now - WindowMs)

\* requests.set(clientId, list)
MapSet(map, clientId, list) == [map EXCEPT ![clientId] = list]

\* The limiter admits the request (it calls next()) when the client has fewer
\* than maxRequests requests in the window.
Admits(clientId) == Len(ClientRequests(clientId)) < MaxRequestsPerWindow

\* The second client stays quiet: it posts to /api/chat only a few times.
MayPost(clientId) ==
  \/ clientId = "a"
  \/ Len(requests[clientId]) < MaxQuietRequests

RateInit ==
  /\ now = 0
  /\ requests = NoRequests
  /\ lastPost = NoPost
  /\ query = <<>>
  /\ phase = "rate"
  /\ TextIdle
  /\ SearchIdle
  /\ StoreNew
  /\ dir = [state |-> "ok", files |-> <<>>]
  /\ CallsIdle
  /\ ChatIdle
  /\ HealthIdle

\* router.post('/chat', chatRateLimit, handler), mounted under /api: the
\* limiter answers 429 or records the request and lets the handler call
\* processMessage.
PostApiChat(clientId) ==
  /\ MayPost(clientId)
  /\ IF Admits(clientId)
     THEN /\ requests' = MapSet(requests, clientId, Append(ClientRequests(clientId), now))
          /\ lastPost' = [route |-> "/api/chat", limiterRan |-> TRUE,
                          outcome |-> "processMessage"]
     ELSE /\ requests' = MapSet(requests, clientId, ClientRequests(clientId))
          /\ lastPost' = [route |-> "/api/chat", limiterRan |-> TRUE,
                          outcome |-> "429 RATE_LIMIT_EXCEEDED"]
  /\ UNCHANGED <<query, phase, textVars, searchVars, storeVars, dir, calls, chatVars, now, health>>

\* this.app.post('/chat', handler) of app.js: the handler calls processMessage.
PostLegacyChat(clientId) ==
  /\ lastPost' = [route |-> "/chat", limiterRan |-> FALSE,
                  outcome |-> "processMessage"]
  /\ UNCHANGED <<query, phase, textVars, searchVars, storeVars, dir, calls, chatVars, now,
                 requests, health>>

\* Time passes.
Advance ==
  /\ \E later \in Instants : later > now /\ now' = later
  /\ UNCHANGED <<query, phase, textVars, searchVars, storeVars, dir, calls, chatVars,
                 requests, lastPost, health>>

RateNext ==
  \/ \E clientId \in Clients : PostApiChat(clientId)
  \/ \E clientId \in Clients : PostLegacyChat(clientId)
  \/ Advance

RateSpec == RateInit /\ [][RateNext]_vars

(***************************************************************************)
(* The claims.                                                             *)
(***************************************************************************)
Searched == phase \in {"searched", "prompted"}

\* The corpus of a load of the directory that reads every text file
CompleteCorpus == LoadAll(TextFiles(dir.files))

AllReadable == \A i \in 1..Len(dir.files) : dir.files[i].readable = "yes"

\* The corpora the startup can have loaded
StartupCorpora == {LoadAll(TextFiles(listing)) : listing \in StartupListings}

\* C1: with a refresh among the calls, every search that returns has scored a
\* complete corpus, all chunks of every file as loaded before the refresh or
\* all chunks of every file of the directory, and never the chunks of only some
\* of the files.
C1_SearchScoresCompleteCorpus ==
  (AllReadable /\ \E r \in 1..Len(calls) : calls[r].op = "refresh") =>
    \A p \in 1..Len(calls) :
      (calls[p].op = "search" /\ calls[p].pc = "done") =>
        \/ calls[p].corpus = CompleteCorpus
        \/ calls[p].corpus \in StartupCorpora

\* C2: when a read fails during a load, the load fails, isInitialized is false
\* and the store holds no chunks of the files the load had processed before.
\* (Stated for a load that runs alone.)
C2_FailedLoadKeepsNoChunks ==
  (Len(calls) = 1 /\ calls[1].error = "ReadFailed") =>
    /\ calls[1].pc = "failed"
    /\ ~isInitialized
    /\ documents = <<>>

\* A call that returned in the turn it was made: it never started a load.
ReturnedAtOnce(call) == call.pc = "done" /\ call.idx = 0

\* A refresh that has returned, every other call having returned at once
RefreshRanAlone(r) ==
  /\ calls[r].op = "refresh"
  /\ calls[r].pc = "done"
  /\ \A p \in 1..Len(calls) : p # r => ReturnedAtOnce(calls[p])

\* C11: after a refresh that returns with no other load in flight, isInitialized
\* is true and the store holds exactly the chunks of the text files now in the
\* directory, in the order of the load: nothing of the corpus before is kept.
C11_RefreshRederivesCorpus ==
  \A r \in 1..Len(calls) :
    RefreshRanAlone(r) =>
      /\ isInitialized
      /\ documents = CompleteCorpus
      /\ stats.documentsLoaded = Len(TextFiles(dir.files))
      /\ stats.chunksCreated = Len(CompleteCorpus)

\* A search scored the corpus of the startup, other than the corpus of the
\* directory, and the refresh made after it has returned.
C11_Witness_StaleCorpusReplaced ==
  /\ Len(calls) = 2
  /\ calls[1].op = "search" /\ ReturnedAtOnce(calls[1])
  /\ calls[1].corpus # CompleteCorpus
  /\ calls[1].corpus # <<>>
  /\ RefreshRanAlone(2)
  /\ documents = CompleteCorpus

\* C3: a search called with topK = k, k >= 0, returns at most k chunks (none for k = 0).
C3_AtMostTopK ==
  (Searched /\ searchOut.status = "ok" /\ topK # <<>>) =>
    Len(searchOut.results) <= topK[1]

NoTxtInDirectory ==
  dir.state = "ok" /\ \A i \in 1..Len(dir.files) : ~EndsWithTxt(dir.files[i].name)

\* C4: with no .txt file in the data directory, isInitialized stays false, and
\* every call of initialize, refresh or searchRelevantContext that ends, ends
\* with the no-text-files error: no search returns a result.
C4_NoTextFilesFailsEveryCall ==
  NoTxtInDirectory =>
    /\ ~isInitialized
    /\ \A p \in 1..Len(calls) :
         /\ calls[p].pc # "done"
         /\ calls[p].pc = "failed" => calls[p].error = "NoTextFiles"
         /\ calls[p].results = <<>>

C4_Witness_SearchFailedNoTextFiles ==
  /\ NoTxtInDirectory
  /\ dir.files # <<>>
  /\ \E p, s \in 1..Len(calls) :
       /\ calls[p].op = "initialize" /\ calls[p].error = "NoTextFiles"
       /\ calls[s].op = "search" /\ calls[s].error = "NoTextFiles"

\* The search fails inside: the keyword expansion throws, or the scoring of a
\* document throws.
InternalFailure(docs, q) ==
  \/ expandArabicKeywordsThrows(KeywordWords(q))
  \/ (docs # <<>> /\ ScoringThrows(extractKeywords(q)))

\* The documents whose score is above the minimum score
Passing(scores) == {i \in 1..Len(scores) : scores[i] > MinScoreHalves}

\* C5: a search that fails inside ends in a RAGError, never in an empty list: a
\* search returns an empty list only when the corpus is empty or no document
\* scores above the minimum score.
C5_FailureIsNeverAnEmptyList ==
  Searched =>
    /\ InternalFailure(documents, query) => searchOut.status = "RAGError"
    /\ (searchOut.status = "ok" /\ searchOut.results = <<>>) =>
         /\ ~InternalFailure(documents, query)
         /\ \/ documents = <<>>
            \/ \A i \in 1..Len(documents) :
                 calculateRelevanceScore(documents[i], extractKeywords(query), query)
                   <= MinScoreHalves

C5_Witness_ScoringThrew ==
  /\ phase = "searched"
  /\ documents # <<>>
  /\ ~expandArabicKeywordsThrows(KeywordWords(query))
  /\ ScoringThrows(extractKeywords(query))
  /\ searchOut.status = "RAGError"

\* C6: the chunks returned are the documents that score strictly above the
\* minimum score, by descending score, documents of equal score in corpus order,
\* cut to the first topK (the configured topK when the call passes none).
C6_FilteredSortedStableTruncated ==
  (Searched /\ searchOut.status = "ok") =>
    LET sc      == searchOut.scored
        r       == searchOut.ranked
        limit   == IF topK = <<>> THEN ConfigTopK ELSE topK[1]
        Before(i, j) == sc[i] > sc[j] \/ (sc[i] = sc[j] /\ i < j)
    IN  /\ Len(sc) = Len(documents)
        /\ \A i \in 1..Len(documents) :
             sc[i] = calculateRelevanceScore(documents[i], extractKeywords(query), query)
        /\ \A n \in 1..Len(r) : r[n] \in Passing(sc)
        /\ \A m, n \in 1..Len(r) : m < n => Before(r[m], r[n])
        /\ Len(r) = Min(limit, Cardinality(Passing(sc)))
        /\ \A i \in Passing(sc) \ SeqToSet(r) : \A n \in 1..Len(r) : Before(r[n], i)
        /\ Len(searchOut.results) = Len(r)
        /\ \A n \in 1..Len(r) :
             /\ searchOut.results[n].content = documents[r[n]].pageContent
             /\ searchOut.results[n].source = documents[r[n]].metadata.source
             /\ searchOut.results[n].score = sc[r[n]]

\* The score as the claim C7 states it: the phrase bonus looks for the
\* normalized query.
ClaimedScore(doc, kw, originalQuery) ==
  LET normalizedContent == normalizeText(toLowerCase(doc.pageContent))
      queryWords        == QueryWords(toLowerCase(originalQuery))
  IN    SumSeq([i \in 1..Len(kw.expanded) |->
                  4 * CountMatches(kw.expanded[i], normalizedContent)])
      + (IF Includes(normalizedContent, normalizeText(originalQuery)) THEN 20 ELSE 0)
      + SumSeq([i \in 1..Len(queryWords) |->
                  IF Includes(normalizedContent, queryWords[i]) THEN 2 ELSE 0])
      + (IF doc.metadata.language = detectLanguage(originalQuery) THEN 1 ELSE 0)
      + getTypeRelevance(doc.metadata.type, kw)

\* C7: the score of every document is 2 per word-boundary match of an expanded
\* keyword, 10 when the normalized text holds the normalized query, 1 per query
\* token longer than 2 characters found in it, 0.5 for the language of the query
\* and 3 for a keyword of the type of the document; it is never negative.
\* (Stated for the queries a chat message can be: trimmed and not empty.)
C7_ScoreIsTheStatedSum ==
  (Searched /\ searchOut.status = "ok" /\ query # <<>> /\ trim(query) = query) =>
    \A i \in 1..Len(documents) :
      /\ searchOut.scored[i] = ClaimedScore(documents[i], extractKeywords(query), query)
      /\ searchOut.scored[i] >= 0

\* C8: with courses.txt holding the two-bootcamps sentence as one chunk, the query
\* "What courses do you offer and their prices?" returns exactly one chunk, scored
\* above the minimum score, and the prompt bundle has hasContext = true and
\* sources = ["courses.txt"].
C8_CoursesQueryFindsCoursesFile ==
  (phase = "prompted" /\ documents = BootcampCorpus /\ query = CoursesPricesQuery
     /\ topK = <<>>) =>
    /\ Len(searchOut.results) = 1
    /\ searchOut.results[1].score > MinScoreHalves
    /\ promptInfo.hasContext
    /\ promptInfo.sources = <<CoursesTxt>>

\* C9: extractKeywords of the Arabic prices-of-the-courses query has an expanded
\* list that holds every original token of the query and "price", "course" and
\* "training".
C9_ExpansionHasPriceCourseTraining ==
  (phase = "keywords" /\ query = ArabicPricesQuery) =>
    /\ ~keywords.threw
    /\ SeqToSet(keywords.original) \subseteq SeqToSet(keywords.expanded)
    /\ {Price, Course, Training} \subseteq SeqToSet(keywords.expanded)

\* C10: normalizeText is idempotent: normalizing a normalized text changes nothing.
C10_NormalizeIdempotent ==
  phase = "renormalized" => normTwice = normOnce

\* The kinds of the parts of a prompt
KindsIn(prompt) == {prompt[i].kind : i \in 1..Len(prompt)}

\* The place of the first chunk of the list that comes from the source
FirstChunkOf(source, chunks) ==
  CHOOSE n \in 1..Len(chunks) :
    /\ chunks[n].source = source
    /\ \A m \in 1..(n - 1) : chunks[m].source # source

\* C13: the sources of the prompt bundle are the distinct sources of the chunks
\* used, each once, in the order of their first chunk in the ranked list, and
\* every source listed labels a document of the context block.
C13_SourcesDistinctInFirstSeenOrder ==
  (phase = "prompted" /\ searchOut.results # <<>>) =>
    LET chunks  == searchOut.results
        sources == promptInfo.sources
    IN  /\ \A i, j \in 1..Len(sources) : i # j => sources[i] # sources[j]
        /\ SeqToSet(sources) = {chunks[n].source : n \in 1..Len(chunks)}
        /\ \A i, j \in 1..Len(sources) :
             i < j => FirstChunkOf(sources[i], chunks) < FirstChunkOf(sources[j], chunks)
        /\ \A i \in 1..Len(sources) :
             \E k \in 1..Len(promptInfo.systemPrompt) :
               /\ promptInfo.systemPrompt[k].kind = "label"
               /\ promptInfo.systemPrompt[k].text = sources[i]
               /\ promptInfo.systemPrompt[k + 1].kind = "content"
               /\ promptInfo.systemPrompt[k + 1].text
                    = chunks[promptInfo.systemPrompt[k].n].content

C13_Witness_RepeatedSourceListedOnce ==
  /\ phase = "prompted"
  /\ Len(searchOut.results) >= 3
  /\ Len(promptInfo.sources) >= 2
  /\ \E m, n \in 1..Len(searchOut.results) :
       m # n /\ searchOut.results[m].source = searchOut.results[n].source

\* C14: with no chunk, the prompt bundle has hasContext = false and a system
\* prompt that is not empty and holds no document label and no chunk content.
C14_NoContextPromptHasNoDocuments ==
  (phase = "prompted" /\ searchOut.results = <<>>) =>
    /\ promptInfo.hasContext = FALSE
    /\ promptInfo.systemPrompt # <<>>
    /\ KindsIn(promptInfo.systemPrompt) \cap {"label", "content", "separator"} = {}

C14_Witness_ArabicQueryWithoutContext ==
  /\ phase = "prompted"
  /\ query = ArabicPricesQuery
  /\ documents # <<>>
  /\ searchOut.results = <<>>
  /\ promptInfo.language = "ar"

\* C15: the system prompt holds the Egyptian tone instructions exactly when the
\* language detected for the query is "ar", with chunks and without.
C15_EgyptianToneIffArabic ==
  phase = "prompted" =>
    ("egyptianTone" \in KindsIn(promptInfo.systemPrompt)
       <=> detectLanguage(query) = "ar")

C15_Witness_ArabicQueryWithContext ==
  /\ phase = "prompted"
  /\ detectLanguage(query) = "ar"
  /\ promptInfo.hasContext
  /\ "egyptianTone" \in KindsIn(promptInfo.systemPrompt)

\* The request was answered with a chat response
Answered200 == request.pc = "answered" /\ request.http.status = 200

\* The request was answered by errorHandler
AnsweredError == request.pc = "answered" /\ request.http.status # 200

\* C12: the prompt bundle has hasContext = true exactly when there are chunks,
\* and then chunkCount is their number; the chat response carries the same
\* hasContext, and chunkCount 0 when there is no context.
C12_HasContextIffChunks ==
  /\ request.pc = "generating" =>
       /\ request.promptInfo.hasContext <=> (request.chunks # <<>>)
       /\ request.promptInfo.hasContext =>
            request.promptInfo.chunkCount = Len(request.chunks)
  /\ Answered200 =>
       /\ request.http.response.hasContext <=> (request.chunks # <<>>)
       /\ request.http.response.chunkCount = Len(request.chunks)
       /\ ~request.http.response.isQuickResponse =>
            request.http.response.hasContext = request.promptInfo.hasContext

C12_Witness_ResponseWithTwoChunks ==
  /\ Answered200
  /\ request.http.response.hasContext
  /\ request.http.response.chunkCount >= 2
  /\ Len(request.chunks) = request.http.response.chunkCount

\* C18: the error answered to the client keeps the kind of the component that
\* failed: OLLAMA_ERROR (502) for the inference service, RAG_ERROR (500) for the
\* retrieval, VALIDATION_ERROR (400) for the input.
C18_ErrorKeepsKindOfComponent ==
  AnsweredError =>
    /\ request.failedIn = "inference" =>
         request.http.status = 502 /\ request.http.error.code = "OLLAMA_ERROR"
    /\ request.failedIn = "retrieval" =>
         request.http.status = 500 /\ request.http.error.code = "RAG_ERROR"
    /\ request.failedIn = "validation" =>
         request.http.status = 400 /\ request.http.error.code = "VALIDATION_ERROR"

\* C19: outside development, the error answered for an inference or retrieval
\* failure has no stack and a message that holds nothing of the message of the
\* underlying error.
C19_ErrorMessageIsGeneric ==
  (AnsweredError /\ nodeEnv # "development"
     /\ request.failedIn \in {"inference", "retrieval"}) =>
    /\ ~request.http.error.hasStack
    /\ \A i \in 1..Len(request.http.error.message) :
         request.http.error.message[i] # request.cause

\* The message of the body is missing, no string, empty after trimming or
\* longer than 2000 characters
InvalidInput(body) ==
  \/ body.kind # "string"
  \/ trim(body.text) = <<>>
  \/ Len(body.text) > MaxMessageLength

\* C20: processMessage rejects every invalid input with a ValidationError (400,
\* VALIDATION_ERROR) without any retrieval or inference, and processes every
\* other input with the trimmed message.
C20_InvalidInputRejectedBeforeWork ==
  request.pc \in {"generating", "answered"} =>
    IF InvalidInput(request.body)
    THEN /\ AnsweredError
         /\ request.http.status = 400
         /\ request.http.error.code = "VALIDATION_ERROR"
         /\ request.searches = 0
         /\ request.generations = 0
    ELSE /\ request.failedIn # "validation"
         /\ request.message = trim(request.body.text)
         /\ \/ request.searches = 1
            \/ (Answered200 /\ request.http.response.isQuickResponse)

C20_Witness_TooLongRejected ==
  /\ AnsweredError
  /\ request.body.kind = "string"
  /\ Len(request.body.text) = MaxMessageLength + 1
  /\ Len(trim(request.body.text)) <= MaxMessageLength
  /\ request.http.error.code = "VALIDATION_ERROR"
  /\ request.searches = 0

\* README: "Chat endpoint: 20 requests per minute per IP"
DocumentedLimit == 20

\* The requests of a client that the limiter admitted in the window that ends now
AdmittedInWindow(clientId) ==
  Cardinality({i \in 1..Len(requests[clientId]) :
                 requests[clientId][i] > now - WindowMs})

\* C16: for each client, at most 20 requests to POST /api/chat are admitted to
\* processMessage in a window of 60 seconds.
C16_AtMostTwentyPerWindow ==
  \A clientId \in Clients : AdmittedInWindow(clientId) <= DocumentedLimit

\* C17: every request that reaches processMessage, through POST /api/chat or
\* through the legacy POST /chat, was first admitted by the rate limiter.
C17_ProcessMessageOnlyBehindLimiter ==
  lastPost.outcome = "processMessage" => lastPost.limiterRan

\* A refresh that has started and has neither returned nor failed
RefreshInFlight ==
  \E r \in 1..Len(calls) :
    calls[r].op = "refresh" /\ calls[r].pc \notin {"done", "failed"}

\* A refresh has failed and no call has completed a load
RefreshFailedNoneLoaded ==
  /\ \E r \in 1..Len(calls) : calls[r].op = "refresh" /\ calls[r].pc = "failed"
  /\ \A p \in 1..Len(calls) : calls[p].pc = "done" => ReturnedAtOnce(calls[p])

\* C21: a health check answers "healthy" exactly when the inference service
\* is connected and the store is initialized, and "degraded" otherwise;
\* it answers "degraded" while a refresh is in flight and after a refresh that
\* failed; the route answers 200 for healthy, 503 for degraded, 500 for error.
C21_HealthyIffConnectedAndInitialized ==
  [][ health'.checks # health.checks =>
        /\ health'.status = IF health'.connected /\ isInitialized
                            THEN "healthy" ELSE "degraded"
        /\ health'.statusCode = IF health'.status = "healthy" THEN 200 ELSE 503
        /\ HealthStatusCode("error") = 500
        /\ RefreshFailedNoneLoaded => health'.status = "degraded"
        /\ RefreshInFlight => health'.status = "degraded" ]_vars

\* The stats of a load of the directory that reads every text file
CompleteStats ==
  [ documentsLoaded |-> Len(TextFiles(dir.files)),
    chunksCreated   |-> Len(CompleteCorpus),
    lastUpdate      |-> "set" ]

ChunksOf(name) == SelectSeq(documents, LAMBDA d : d.metadata.source = name)

\* The texts of chunks one after the other; the pieces of the files of this
\* model share no text, so there is no overlap to remove.
RECURSIVE Concatenated(_)
Concatenated(chunks) ==
  IF chunks = <<>> THEN <<>>
  ELSE Head(chunks).pageContent \o Concatenated(Tail(chunks))

\* A single call has loaded the directory and returned
LoadedAlone == Len(calls) = 1 /\ calls[1].pc = "done" /\ calls[1].idx > 0

\* C23: after a load, the stored chunks of every text file, concatenated in
\* chunk order, are the text of the file, and their chunk indices are 0, 1, 2,
\* ... without a gap.
C23_ChunksReconstructFile ==
  LoadedAlone =>
    \A i \in 1..Len(dir.files) :
      EndsWithTxt(dir.files[i].name) =>
        LET chunks == ChunksOf(dir.files[i].name)
        IN  /\ Concatenated(chunks) = dir.files[i].content
            /\ \A n \in 1..Len(chunks) : chunks[n].metadata.chunk = n - 1

\* The call p, an initialize() or a refresh(), fails in this step
LoadCallFails(p) ==
  /\ calls[p].op \in {"initialize", "refresh"}
  /\ calls[p].pc # "failed"
  /\ calls'[p].pc = "failed"

\* A search is called in this step after a call has failed, no call having
\* completed a load
SearchCalledAfterFailure ==
  /\ Len(calls') = Len(calls) + 1
  /\ calls'[Len(calls')].op = "search"
  /\ \E p \in 1..Len(calls) : calls[p].pc = "failed"
  /\ \A p \in 1..Len(calls) : calls[p].pc = "done" => ReturnedAtOnce(calls[p])

\* C24: when an initialize() or a refresh() fails, isInitialized is false; a
\* search called after the failure, before any load has succeeded, returns no
\* chunks in the turn of its call but attempts the load again.
C24_FailedLoadLeavesUninitialized ==
  [][ /\ \A p \in 1..Len(calls) : LoadCallFails(p) => ~isInitialized'
      /\ SearchCalledAfterFailure =>
           /\ calls'[Len(calls')].pc = "stat"
           /\ calls'[Len(calls')].results = <<>> ]_vars

\* Two calls have each run a load of the directory, and both have returned
TwoLoadsCompleted ==
  /\ Len(calls) = 2
  /\ \A p \in 1..2 : calls[p].pc = "done" /\ calls[p].idx > 0

\* C25: once two loads have completed, overlapping or not, the store holds
\* every chunk of every text file exactly once and stats.documentsLoaded is the
\* number of .txt files of the directory.
C25_OverlappingLoadsKeepOneCopy ==
  TwoLoadsCompleted =>
    /\ documents = CompleteCorpus
    /\ stats.documentsLoaded = Len(TextFiles(dir.files))

\* C26: in every state getStats() can observe, in the middle of a load, with
\* loads that overlap and after a load that failed, chunksCreated is the number
\* of chunks in memory.
C26_ChunksCreatedIsDocumentsInMemory ==
  getStats.chunksCreated = getStats.documentsInMemory

\* Two loads overlap, one has failed and the other is in the middle of its
\* files, with chunks of both in the store
C26_Witness_OverlapWithFailedLoad ==
  /\ Len(calls) = 2
  /\ \E p, r \in 1..2 :
       /\ calls[p].error = "ReadFailed"
       /\ calls[r].pc = "readFile" /\ calls[r].idx > 1
  /\ Len(documents) > 2

\* C27: a request invokes the inference service at most once, and only when
\* its input is valid and its search has returned; a request whose search
\* fails never invokes it and ends in an error.
C27_InferenceOnceAfterRetrieval ==
  /\ request.generations <= 1
  /\ request.generations = 1 =>
       /\ validateChatInput(request.body).valid
       /\ request.searches = 1
       /\ searchRelevantContext(documents, request.message, <<>>).status = "ok"
       /\ request.failedIn \notin {"validation", "retrieval"}
  /\ (request.searches = 1
        /\ searchRelevantContext(documents, request.message, <<>>).status # "ok") =>
       /\ request.generations = 0
       /\ request.pc = "answered"
       /\ request.failedIn = "retrieval"
       /\ request.http.status >= 400

C27_Witness_RetrievalFailedNoInference ==
  /\ request.failedIn = "retrieval"
  /\ request.searches = 1
  /\ request.generations = 0
  /\ request.http.status = 500

\* The text, trimmed and in lower case, is one of the recognised greetings
IsGreeting(text) ==
  \E i \in 1..Len(GreetingPatterns) : toLowerCase(trim(text)) \in GreetingPatterns[i]

\* C28: a valid message that, trimmed and in lower case, is one of the
\* recognised greetings is answered with a canned reply that has hasContext
\* false, no sources, chunkCount 0 and the model "quick-response"; the request
\* makes no search and no inference call and leaves the store as it was, no
\* load started.
C28_GreetingAnsweredWithoutWork ==
  ( /\ request.pc # "received"
    /\ request.body.kind = "string"
    /\ validateChatInput(request.body).valid
    /\ IsGreeting(request.body.text) ) =>
      /\ request.pc = "answered"
      /\ request.http.status = 200
      /\ request.http.response.isQuickResponse
      /\ request.http.response.hasContext = FALSE
      /\ request.http.response.sources = <<>>
      /\ request.http.response.chunkCount = 0
      /\ request.http.response.model = "quick-response"
      /\ request.searches = 0
      /\ request.generations = 0
      /\ documents = CompleteCorpus /\ isInitialized /\ stats = CompleteStats
      /\ calls = <<>>

\* " Hello " has been answered
C28_Witness_HelloAnswered ==
  /\ request.pc = "answered"
  /\ request.body.kind = "string"
  /\ request.body.text # Hello
  /\ request.message = <<72, 101, 108, 108, 111>>
  /\ request.http.status = 200
  /\ request.http.response.model = "quick-response"

\* The query is a message as validateChatInput returns it
ValidatedMessage(q) == q # <<>> /\ trim(q) = q /\ Len(q) <= MaxMessageLength

\* C29: on a loaded store that holds chunks, the search of a validated message
\* returns without an error whatever characters the words of the message hold,
\* the syntax characters of regular expressions among them.  (Stated for the
\* messages whose keyword expansion returns: the scoring is what is claimed.)
C29_SearchSurvivesEveryMessage ==
  ( /\ Searched
    /\ isInitialized
    /\ documents # <<>>
    /\ ValidatedMessage(query)
    /\ ~expandArabicKeywordsThrows(KeywordWords(query)) ) =>
      searchOut.status = "ok"

====
